---- MODULE Spec2Model ----
(***************************************************************************)
(* A model of BrewLog's storage layer (brewlog/db.py), serialiser          *)
(* (brewlog/serialise.py) and the import / export commands.                *)
(*                                                                         *)
(* Values.  A Python value that may be None is a sequence of length 0      *)
(* (None) or 1 (the value): Null == <<>>, Some(v) == <<v>>.  A dict is a   *)
(* function from its keys to such values; a nested dict d is Some(d), so   *)
(* an empty sub-object Some(EmptyDict) differs from None.  A sqlite row is *)
(* a function from the table's column names to such values.                *)
(***************************************************************************)
EXTENDS Integers, Sequences, FiniteSets, TLC

VARIABLES disk, outfile, pre, outcome, trace, opens, input, out, assigned

vars == <<disk, outfile, pre, outcome, trace, opens, input, out, assigned>>

\* ------------------------------------------------------------------ bounds

\* Most rows the store holds in the model (import is not taken beyond it).
MaxRows == 2
\* Most brews in one imported document.
MaxBrews == 2
\* Highest id the store assigns in the model (no insert is taken beyond it).
MaxIds == 3

\* ------------------------------------------------------------------ values

Null == <<>>
Some(v) == <<v>>
IsNone(x) == Len(x) = 0
EmptyDict == [k \in {} |-> Null]

\* dict.get(key): the value, None when the key is absent.
Get(d, k) == IF k \in DOMAIN d THEN d[k] ELSE Null

\* `x or {}` for x a dict or None.
OrEmptyDict(x) == IF IsNone(x) THEN EmptyDict ELSE x[1]

\* d[k] = v
Put(d, k, v) == (k :> v) @@ d

\* dict.pop(key, None): the dict without the key.
Pop(d, k) == [x \in (DOMAIN d) \ {k} |-> d[x]]

\* range of a sequence
Range(s) == {s[i] : i \in 1..Len(s)}

\* json.dumps of a list of strings: its text, as the sequence of its tokens.
RECURSIVE JoinItems(_)
JoinItems(l) ==
    IF Len(l) = 0 THEN <<>>
    ELSE IF Len(l) = 1 THEN <<l[1]>>
    ELSE <<l[1], ",">> \o JoinItems(Tail(l))

json_dumps(l) == <<"[">> \o JoinItems(l) \o <<"]">>

\* A reader that hands back the stored text as it is.
json_loads_raw(t) == t

\* json.loads of such a text: the list of its items.
json_loads(t) == [i \in 1..((Len(t) - 1) \div 2) |-> t[2 * i]]

\* ------------------------------------------------------------------ db.py constants

\* An allow-list without the notes column.
UPDATABLE_COLUMNS_WITHOUT_NOTES ==
    { "method", "grind", "water_temp_c", "duration_s",
      "result_tds", "result_ey", "result_brix", "result_tasting_notes",
      "result_rating_overall", "result_rating_fragrance", "result_rating_aroma",
      "result_rating_flavour", "result_rating_aftertaste", "result_rating_acidity",
      "result_rating_sweetness", "result_rating_mouthfeel",
      "coffee_roast_date", "coffee_type", "coffee_origin", "coffee_varietal",
      "coffee_process", "water_ppm", "equipment_grinder", "equipment_brewer" }

UPDATABLE_COLUMNS ==
    { "method", "grind", "water_temp_c", "duration_s", "notes",
      "result_tds", "result_ey", "result_brix", "result_tasting_notes",
      "result_rating_overall", "result_rating_fragrance", "result_rating_aroma",
      "result_rating_flavour", "result_rating_aftertaste", "result_rating_acidity",
      "result_rating_sweetness", "result_rating_mouthfeel",
      "coffee_roast_date", "coffee_type", "coffee_origin", "coffee_varietal",
      "coffee_process", "water_ppm", "equipment_grinder", "equipment_brewer" }

\* The keys of _V3_MIGRATION_COLUMNS, in the dict's order.
V3_MIGRATION_COLUMNS ==
    << "result_rating_overall", "result_rating_fragrance", "result_rating_aroma",
       "result_rating_flavour", "result_rating_aftertaste", "result_rating_acidity",
       "result_rating_sweetness", "result_rating_mouthfeel" >>

\* The columns of CREATE TABLE IF NOT EXISTS brews, in order.
SCHEMA_COLUMNS ==
    << "id", "date", "type", "method", "dose_g", "water_weight_g",
       "water_volume_ml", "water_temp_c", "grind", "duration_s", "notes",
       "coffee_roast_date", "coffee_type", "coffee_origin", "coffee_varietal",
       "coffee_process", "water_ppm", "equipment_grinder", "equipment_brewer",
       "result_tds", "result_ey", "result_brix", "result_tasting_notes",
       "result_ratings" >> \o V3_MIGRATION_COLUMNS

\* The columns declared NOT NULL.
NOT_NULL_COLUMNS == {"date", "type", "dose_g", "water_weight_g"}

\* The column list of the INSERT statement of insert_brew_dict.
INSERT_COLUMNS ==
    { "date", "type", "method", "dose_g", "water_weight_g",
      "water_volume_ml", "water_temp_c", "grind", "duration_s", "notes",
      "coffee_roast_date", "coffee_type", "coffee_origin",
      "coffee_varietal", "coffee_process", "water_ppm",
      "equipment_grinder", "equipment_brewer",
      "result_tds", "result_ey", "result_brix", "result_tasting_notes" }
    \cup Range(V3_MIGRATION_COLUMNS)

\* ------------------------------------------------------------------ serialise.py constants

GRIND_ENUM ==
    {"turkish", "espresso", "fine", "medium_fine", "medium", "medium_coarse", "coarse"}

\* _RATING_DIMS: (db column, export key), in order.
RATING_DIMS ==
    << <<"result_rating_overall", "overall">>,
       <<"result_rating_fragrance", "fragrance">>,
       <<"result_rating_aroma", "aroma">>,
       <<"result_rating_flavour", "flavour">>,
       <<"result_rating_aftertaste", "aftertaste">>,
       <<"result_rating_acidity", "acidity">>,
       <<"result_rating_sweetness", "sweetness">>,
       <<"result_rating_mouthfeel", "mouthfeel">> >>

\* ------------------------------------------------------------------ the database file

\* The state of the database file: whether the brews table exists, its columns
\* in PRAGMA table_info order, its rows by id, and the AUTOINCREMENT counter
\* (sqlite_sequence).
NoTable == [exists |-> FALSE, columns |-> <<>>, rows |-> <<>>, seq |-> 0]

\* sqlite3.connect: a connection sees the file's committed state and works on
\* its own view of it until commit().
\* faultAt is the environment's part: the INSERT statement of that ordinal on
\* this connection is refused by the engine (sqlite3.Error: disk full, I/O
\* error, value out of range); 0 is an engine that refuses nothing.  SCHEMA_FAULT
\* is an engine that refuses the schema script, the first statement of all.
Connect(d, faultAt) ==
    [work |-> d, committed |-> d, faultAt |-> faultAt, inserts |-> 0]
Commit(conn) == [conn EXCEPT !.committed = conn.work]
Rollback(conn) == [conn EXCEPT !.work = conn.committed]
\* conn.close(): what was not committed is lost; the file keeps the committed state.
Close(conn) == conn.committed

\* A raised exception is the name of its class; "" is a normal return.
OK == ""

\* ------------------------------------------------------------------ db.py: schema and migration

\* The engine refuses the first statement on the connection: the file is not a
\* database, or cannot be read or written (sqlite3.DatabaseError).
SCHEMA_FAULT == -1

\* _init_schema: CREATE TABLE IF NOT EXISTS brews (...); commit.
init_schema(conn) ==
    LET w == conn.work
        created ==
            IF w.exists THEN w
            ELSE [exists |-> TRUE, columns |-> SCHEMA_COLUMNS, rows |-> <<>>, seq |-> 0]
    IN IF conn.faultAt = SCHEMA_FAULT
       THEN [conn |-> conn, err |-> "DatabaseError"]
       ELSE [conn |-> Commit([conn EXCEPT !.work = created]), err |-> OK]

\* ALTER TABLE brews ADD COLUMN col: the column is appended and is NULL in every
\* existing row; sqlite refuses a column name the table already has.  The
\* statement is not DML, so it runs outside a transaction and is durable at once.
\* ALTER TABLE ... ADD COLUMN col INTEGER DEFAULT 0: existing rows get 0.
AlterAddColumnDefaultZero(conn, col) ==
    IF col \in Range(conn.work.columns)
    THEN [conn |-> conn, err |-> "OperationalError"]
    ELSE [conn |-> Commit([conn EXCEPT
                      !.work.columns = Append(@, col),
                      !.work.rows = [i \in DOMAIN @ |-> Put(@[i], col, Some(0))]]),
          err |-> OK]

AlterAddColumn(conn, col) ==
    IF col \in Range(conn.work.columns)
    THEN [conn |-> conn, err |-> "OperationalError"]
    ELSE [conn |-> Commit([conn EXCEPT
                      !.work.columns = Append(@, col),
                      !.work.rows = [i \in DOMAIN @ |-> Put(@[i], col, Null)]]),
          err |-> OK]

\* A migration that adds every column, and one that adds none.
MissingColumnAlways(col, existing) == TRUE
MissingColumnNever(col, existing) == FALSE

\* `if col not in existing`
MissingColumn(col, existing) == col \notin existing

RECURSIVE MigrateLoop(_, _, _)
MigrateLoop(conn, cols, existing) ==
    IF Len(cols) = 0 THEN [conn |-> conn, err |-> OK]
    ELSE IF MissingColumn(Head(cols), existing)
         THEN LET r == AlterAddColumn(conn, Head(cols))
              IN IF r.err # OK THEN r ELSE MigrateLoop(r.conn, Tail(cols), existing)
         ELSE MigrateLoop(conn, Tail(cols), existing)

\* _apply_migrations: add the missing v0.3 columns; commit.
apply_migrations(conn) ==
    LET existing == Range(conn.work.columns)
        r == MigrateLoop(conn, V3_MIGRATION_COLUMNS, existing)
    IN IF r.err # OK THEN r ELSE [conn |-> Commit(r.conn), err |-> OK]

\* get_connection: connect, _init_schema, _apply_migrations.
get_connection(d, faultAt) ==
    LET s == init_schema(Connect(d, faultAt))
    IN IF s.err # OK THEN s ELSE apply_migrations(s.conn)

\* ------------------------------------------------------------------ db.py: insert

\* The params tuple of insert_brew_dict, by column.
InsertDictParams(brew_dict) ==
    LET coffee == OrEmptyDict(Get(brew_dict, "coffee"))
        water == OrEmptyDict(Get(brew_dict, "water"))
        equipment == OrEmptyDict(Get(brew_dict, "equipment"))
        result == OrEmptyDict(Get(brew_dict, "result"))
        origin == Get(coffee, "origin")
        ratings == OrEmptyDict(Get(result, "ratings"))
    IN [ date |-> Get(brew_dict, "date"),
         type |-> Get(brew_dict, "type"),
         method |-> Get(brew_dict, "method"),
         dose_g |-> Get(brew_dict, "dose_g"),
         water_weight_g |-> Get(brew_dict, "water_weight_g"),
         water_volume_ml |-> Get(brew_dict, "water_volume_ml"),
         water_temp_c |-> Get(brew_dict, "water_temp_c"),
         grind |-> Get(brew_dict, "grind"),
         duration_s |-> Get(brew_dict, "duration_s"),
         notes |-> Get(brew_dict, "notes"),
         coffee_roast_date |-> Get(coffee, "roast_date"),
         coffee_type |-> Get(coffee, "type"),
         coffee_origin |->
             IF ~IsNone(origin) /\ Len(origin[1]) > 0
             THEN Some(json_dumps(origin[1])) ELSE Null,
         coffee_varietal |-> Get(coffee, "varietal"),
         coffee_process |-> Get(coffee, "process"),
         water_ppm |-> Get(water, "ppm"),
         equipment_grinder |-> Get(equipment, "grinder"),
         equipment_brewer |-> Get(equipment, "brewer"),
         result_tds |-> Get(result, "tds"),
         result_ey |-> Get(result, "ey"),
         result_brix |-> Get(result, "brix"),
         result_tasting_notes |-> Get(result, "tasting_notes"),
         result_rating_overall |-> Get(ratings, "overall"),
         result_rating_fragrance |-> Get(ratings, "fragrance"),
         result_rating_aroma |-> Get(ratings, "aroma"),
         result_rating_flavour |-> Get(ratings, "flavour"),
         result_rating_aftertaste |-> Get(ratings, "aftertaste"),
         result_rating_acidity |-> Get(ratings, "acidity"),
         result_rating_sweetness |-> Get(ratings, "sweetness"),
         result_rating_mouthfeel |-> Get(ratings, "mouthfeel") ]

\* An INSERT into a table whose id is a plain INTEGER PRIMARY KEY: the row gets
\* the highest id in the table plus one.
ExecuteInsertMaxRowid(conn, params) ==
    LET w == conn.work
        n == conn.inserts + 1
        c1 == [conn EXCEPT !.inserts = n]
        top == IF DOMAIN w.rows = {} THEN 0
               ELSE CHOOSE i \in DOMAIN w.rows : \A j \in DOMAIN w.rows : j <= i
        id == top + 1
        row == [c \in Range(w.columns) |->
                   IF c = "id" THEN Some(id)
                   ELSE IF c \in DOMAIN params THEN params[c] ELSE Null]
    IN IF conn.faultAt = n
       THEN [conn |-> c1, err |-> "Error", lastrowid |-> 0]
       ELSE IF ~(DOMAIN params \subseteq Range(w.columns))
       THEN [conn |-> c1, err |-> "OperationalError", lastrowid |-> 0]
       ELSE IF \E c \in NOT_NULL_COLUMNS : IsNone(params[c])
       THEN [conn |-> c1, err |-> "IntegrityError", lastrowid |-> 0]
       ELSE [conn |-> [c1 EXCEPT !.work.rows = (id :> row) @@ @, !.work.seq = id],
             err |-> OK, lastrowid |-> id]

\* conn.execute("INSERT INTO brews (...) VALUES (...)", params): the engine
\* refuses the statement when it names a column the table lacks or leaves a
\* NOT NULL column null; otherwise the row gets the next AUTOINCREMENT id.
\* The row is in the connection's view only, until commit().
ExecuteInsert(conn, params) ==
    LET w == conn.work
        n == conn.inserts + 1
        c1 == [conn EXCEPT !.inserts = n]
        id == w.seq + 1
        row == [c \in Range(w.columns) |->
                   IF c = "id" THEN Some(id)
                   ELSE IF c \in DOMAIN params THEN params[c] ELSE Null]
    IN IF conn.faultAt = n
       THEN [conn |-> c1, err |-> "Error", lastrowid |-> 0]
       ELSE IF ~(DOMAIN params \subseteq Range(w.columns))
       THEN [conn |-> c1, err |-> "OperationalError", lastrowid |-> 0]
       ELSE IF \E c \in NOT_NULL_COLUMNS : IsNone(params[c])
       THEN [conn |-> c1, err |-> "IntegrityError", lastrowid |-> 0]
       ELSE [conn |-> [c1 EXCEPT !.work.rows = (id :> row) @@ @, !.work.seq = id],
             err |-> OK, lastrowid |-> id]

\* An insert that commits, as insert_brew does.
insert_brew_dict_committing(brew_dict, conn) ==
    LET r == ExecuteInsert(conn, InsertDictParams(brew_dict))
    IN IF r.err = OK THEN [r EXCEPT !.conn = Commit(r.conn)] ELSE r

\* An insert that writes the ratings blob column as well.
insert_brew_dict_with_blob(brew_dict, conn) ==
    ExecuteInsert(conn, [result_ratings |-> Some("{overall: 4}")]
                            @@ InsertDictParams(brew_dict))

\* An insert that leaves out a brew the table already holds with the same values.
insert_brew_dict_unique(brew_dict, conn) ==
    LET params == InsertDictParams(brew_dict)
        held == \E id \in DOMAIN conn.work.rows :
                    \A c \in DOMAIN params : Get(conn.work.rows[id], c) = params[c]
    IN IF held THEN [conn |-> conn, err |-> OK, lastrowid |-> 0]
       ELSE ExecuteInsert(conn, params)

\* insert_brew_dict: one INSERT, no commit (the caller commits).
insert_brew_dict(brew_dict, conn) == ExecuteInsert(conn, InsertDictParams(brew_dict))

\* The params of an insert that encodes the origins whenever there is a coffee
\* object: `json.dumps(coffee.origin) if coffee else None`.
InsertParamsOriginOfAnyCoffee(brew) ==
    LET coffee == Get(brew, "coffee")
    IN [ InsertDictParams(brew) EXCEPT
           !.coffee_origin =
               IF IsNone(coffee) THEN Null
               ELSE IF IsNone(Get(coffee[1], "origin")) THEN Some(<<"null">>)
               ELSE Some(json_dumps(Get(coffee[1], "origin")[1])) ]

\* `sub.name if sub else None`, for a sub-model that may be None.
Attr(sub, name) == IF IsNone(sub) THEN Null ELSE Get(sub[1], name)

\* The params tuple of insert_brew, by column.  A BrewInput is the dict of its
\* fields that are not None.
InsertParams(brew) ==
    LET coffee == Get(brew, "coffee")
        water == Get(brew, "water")
        equipment == Get(brew, "equipment")
        result == Get(brew, "result")
        ratings == Attr(result, "ratings")
    IN [ date |-> Get(brew, "date"),
         type |-> Get(brew, "type"),
         method |-> Get(brew, "method"),
         dose_g |-> Get(brew, "dose_g"),
         water_weight_g |-> Get(brew, "water_weight_g"),
         water_volume_ml |-> Get(brew, "water_volume_ml"),
         water_temp_c |-> Get(brew, "water_temp_c"),
         grind |-> Get(brew, "grind"),
         duration_s |-> Get(brew, "duration_s"),
         notes |-> Get(brew, "notes"),
         coffee_roast_date |-> Attr(coffee, "roast_date"),
         coffee_type |-> Attr(coffee, "type"),
         coffee_origin |->
             IF ~IsNone(coffee) /\ ~IsNone(Attr(coffee, "origin"))
                /\ Len(Attr(coffee, "origin")[1]) > 0
             THEN Some(json_dumps(Attr(coffee, "origin")[1])) ELSE Null,
         coffee_varietal |-> Attr(coffee, "varietal"),
         coffee_process |-> Attr(coffee, "process"),
         water_ppm |-> Attr(water, "ppm"),
         equipment_grinder |-> Attr(equipment, "grinder"),
         equipment_brewer |-> Attr(equipment, "brewer"),
         result_tds |-> Attr(result, "tds"),
         result_ey |-> Attr(result, "ey"),
         result_brix |-> Attr(result, "brix"),
         result_tasting_notes |-> Attr(result, "tasting_notes"),
         result_rating_overall |-> Attr(ratings, "overall"),
         result_rating_fragrance |-> Attr(ratings, "fragrance"),
         result_rating_aroma |-> Attr(ratings, "aroma"),
         result_rating_flavour |-> Attr(ratings, "flavour"),
         result_rating_aftertaste |-> Attr(ratings, "aftertaste"),
         result_rating_acidity |-> Attr(ratings, "acidity"),
         result_rating_sweetness |-> Attr(ratings, "sweetness"),
         result_rating_mouthfeel |-> Attr(ratings, "mouthfeel") ]

\* insert_brew: one INSERT, then commit.
insert_brew(brew, conn) ==
    LET r == ExecuteInsert(conn, InsertParams(brew))
    IN IF r.err = OK THEN [r EXCEPT !.conn = Commit(r.conn)] ELSE r

\* ------------------------------------------------------------------ serialise.py: row to brew dict

\* `d[key] = r.get(col)`, null or not.
CopyAlways(d, r, col, key) == Put(d, key, Get(r, col))

\* `if r.get(col) is not None: d[key] = r[col]`
CopyIfPresent(d, r, col, key) ==
    IF ~IsNone(Get(r, col)) THEN Put(d, key, r[col]) ELSE d

\* The same for a sequence of (column, key) pairs, in order.
RECURSIVE CopyAll(_, _, _)
CopyAll(d, r, pairs) ==
    IF Len(pairs) = 0 THEN d
    ELSE CopyAll(CopyIfPresent(d, r, pairs[1][1], pairs[1][2]), r, Tail(pairs))

\* `if sub: d[key] = sub`, for sub a dict.
PutIfNonEmpty(d, key, sub) ==
    IF DOMAIN sub # {} THEN Put(d, key, Some(sub)) ELSE d

\* The grind block: a stored grind of the enum is copied, any other non-null
\* one goes under the sentinel key _invalid_grind.
GrindBlock(brew, r) ==
    IF ~IsNone(Get(r, "grind"))
    THEN IF r["grind"][1] \in GRIND_ENUM
         THEN Put(brew, "grind", r["grind"])
         ELSE Put(brew, "_invalid_grind", r["grind"])
    ELSE brew

\* The coffee block: origin is decoded from its JSON text.
CoffeeBlock(r) ==
    LET c1 == CopyAll(EmptyDict, r,
                  << <<"coffee_roast_date", "roast_date">>, <<"coffee_type", "type">> >>)
        c2 == IF ~IsNone(Get(r, "coffee_origin"))
              THEN Put(c1, "origin", Some(json_loads(r["coffee_origin"][1])))
              ELSE c1
    IN CopyAll(c2, r,
           << <<"coffee_varietal", "varietal">>, <<"coffee_process", "process">> >>)

\* The result block, with the ratings read from the eight rating columns.
ResultBlock(r) ==
    LET res == CopyAll(EmptyDict, r,
                   << <<"result_tds", "tds">>, <<"result_ey", "ey">>,
                      <<"result_brix", "brix">>,
                      <<"result_tasting_notes", "tasting_notes">> >>)
        ratings == CopyAll(EmptyDict, r, RATING_DIMS)
    IN PutIfNonEmpty(res, "ratings", ratings)

row_to_brew_dict(r) ==
    LET b0 == [ date |-> r["date"], type |-> r["type"],
                dose_g |-> r["dose_g"], water_weight_g |-> r["water_weight_g"] ]
        b1 == CopyAll(b0, r,
                  << <<"method", "method">>, <<"water_volume_ml", "water_volume_ml">>,
                     <<"water_temp_c", "water_temp_c">>, <<"duration_s", "duration_s">>,
                     <<"notes", "notes">> >>)
        b2 == GrindBlock(b1, r)
        b3 == PutIfNonEmpty(b2, "coffee", CoffeeBlock(r))
        b4 == IF ~IsNone(Get(r, "water_ppm"))
              THEN Put(b3, "water", Some([ppm |-> r["water_ppm"]]))
              ELSE b3
        b5 == PutIfNonEmpty(b4, "equipment",
                  CopyAll(EmptyDict, r,
                      << <<"equipment_grinder", "grinder">>,
                         <<"equipment_brewer", "brewer">> >>))
    IN PutIfNonEmpty(b5, "result", ResultBlock(r))

\* validate_import_path.  A file is its path's parts and suffix, whether it
\* exists, its size in bytes and its content.
MAX_BYTES == 10 * 1024 * 1024

\* A size check that turns away the file of exactly MAX_BYTES too.
validate_import_path_below(f) ==
    IF ".." \in Range(f.parts)
    THEN [err |-> "path must not contain '..' components", trace |-> <<>>]
    ELSE IF ~f.exists
    THEN [err |-> "file does not exist", trace |-> <<"exists">>]
    ELSE IF f.size >= MAX_BYTES
    THEN [err |-> "file exceeds 10MB limit", trace |-> <<"exists", "stat">>]
    ELSE [err |-> OK, trace |-> <<"exists", "stat">>]

validate_import_path(f) ==
    IF ".." \in Range(f.parts)
    THEN [err |-> "path must not contain '..' components", trace |-> <<>>]
    ELSE IF ~f.exists
    THEN [err |-> "file does not exist", trace |-> <<"exists">>]
    ELSE IF f.size > MAX_BYTES
    THEN [err |-> "file exceeds 10MB limit", trace |-> <<"exists", "stat">>]
    ELSE [err |-> OK, trace |-> <<"exists", "stat">>]

\* ------------------------------------------------------------------ schema.py: validate_document

\* The bundled brewspec.schema.json (v0.4), as the repository's schema tests
\* and its specification describe it.  Numbers are integers here, and a string
\* is of a date shape when it is one of the samples of that shape.
BREW_TYPES == {"immersion", "pour_over", "espresso", "hybrid"}
COFFEE_TYPES == {"single_origin", "blend"}
DATE_ONLY_SAMPLES == {"2026-01-01", "2026-01-20", "2026-02-21", "2026-13-01"}
DATE_TIME_SAMPLES == {"2026-02-19T08:30:00Z", "2026-02-21T09:00:00Z"}
BREW_KEYS ==
    { "date", "type", "method", "dose_g", "water_weight_g", "water_volume_ml",
      "water_temp_c", "coffee", "water", "equipment", "grind", "duration_s",
      "notes", "result" }
COFFEE_KEYS == {"roast_date", "type", "origin", "varietal", "process"}
RESULT_KEYS == {"tds", "ey", "brix", "tasting_notes", "ratings"}
RATING_KEYS == {RATING_DIMS[i][2] : i \in 1..Len(RATING_DIMS)}

\* The key is present; a present key with value null fails its type.
Has(d, k) == k \in DOMAIN d
NullAt(d) == \E k \in DOMAIN d : IsNone(d[k])
V(d, k) == d[k][1]

\* The messages of the checks that fail, in the checks' order.
Failed(checks) ==
    LET sel == SelectSeq(checks, LAMBDA c : c[1])
    IN [i \in 1..Len(sel) |-> sel[i][2]]

RatingsErrors(r) ==
    IF NullAt(r) THEN <<"None is not of type 'integer'">>
    ELSE Failed(<<
      <<~(DOMAIN r \subseteq RATING_KEYS), "Additional properties are not allowed">>,
      <<\E k \in DOMAIN r \cap RATING_KEYS : V(r, k) < 1, "is less than the minimum of 1">>,
      <<\E k \in DOMAIN r \cap RATING_KEYS : V(r, k) > 5, "is greater than the maximum of 5">> >>)

ResultErrors(r) ==
    IF NullAt(r) THEN <<"None is not of the type">>
    ELSE Failed(<<
      <<~(DOMAIN r \subseteq RESULT_KEYS), "Additional properties are not allowed">>,
      <<Has(r, "tds") /\ V(r, "tds") <= 0, "tds is less than or equal to the minimum of 0">>,
      <<Has(r, "ey") /\ V(r, "ey") <= 0, "ey is less than or equal to the minimum of 0">>,
      <<Has(r, "brix") /\ V(r, "brix") < 0, "brix is less than the minimum of 0">>,
      <<Has(r, "tasting_notes") /\ V(r, "tasting_notes") = "", "tasting_notes is too short">> >>)
      \o (IF Has(r, "ratings") THEN RatingsErrors(V(r, "ratings")) ELSE <<>>)

CoffeeErrors(c) ==
    IF NullAt(c) THEN <<"None is not of the type">>
    ELSE Failed(<<
      <<~(DOMAIN c \subseteq COFFEE_KEYS), "Additional properties are not allowed">>,
      <<Has(c, "roast_date") /\ V(c, "roast_date") \notin DATE_ONLY_SAMPLES,
        "roast_date does not match">>,
      <<Has(c, "type") /\ V(c, "type") \notin COFFEE_TYPES, "type is not one of">>,
      <<Has(c, "origin") /\ Len(V(c, "origin")) = 0, "origin is too short">>,
      <<Has(c, "origin") /\ "" \in Range(V(c, "origin")), "origin item is too short">>,
      <<Has(c, "varietal") /\ V(c, "varietal") = "", "varietal is too short">>,
      <<Has(c, "process") /\ V(c, "process") = "", "process is too short">> >>)

WaterErrors(w) ==
    IF NullAt(w) THEN <<"None is not of type 'number'">>
    ELSE Failed(<<
      <<~(DOMAIN w \subseteq {"ppm"}), "Additional properties are not allowed">>,
      <<Has(w, "ppm") /\ V(w, "ppm") < 0, "ppm is less than the minimum of 0">> >>)

EquipmentErrors(e) ==
    IF NullAt(e) THEN <<"None is not of type 'string'">>
    ELSE Failed(<<
      <<~(DOMAIN e \subseteq {"grinder", "brewer"}), "Additional properties are not allowed">>,
      <<Has(e, "grinder") /\ V(e, "grinder") = "", "grinder is too short">>,
      <<Has(e, "brewer") /\ V(e, "brewer") = "", "brewer is too short">> >>)

BrewErrors(b) ==
    IF NullAt(b) THEN <<"None is not of the type">>
    ELSE Failed(<<
      <<~(DOMAIN b \subseteq BREW_KEYS), "Additional properties are not allowed">>,
      <<~Has(b, "date"), "'date' is a required property">>,
      <<~Has(b, "type"), "'type' is a required property">>,
      <<~Has(b, "dose_g"), "'dose_g' is a required property">>,
      <<~Has(b, "water_weight_g"), "'water_weight_g' is a required property">>,
      <<Has(b, "date") /\ V(b, "date") \notin DATE_ONLY_SAMPLES \cup DATE_TIME_SAMPLES,
        "date does not match">>,
      <<Has(b, "type") /\ V(b, "type") \notin BREW_TYPES, "type is not one of">>,
      <<Has(b, "dose_g") /\ V(b, "dose_g") <= 0, "dose_g is less than or equal to the minimum of 0">>,
      <<Has(b, "water_weight_g") /\ V(b, "water_weight_g") <= 0,
        "water_weight_g is less than or equal to the minimum of 0">>,
      <<Has(b, "water_volume_ml") /\ V(b, "water_volume_ml") <= 0,
        "water_volume_ml is less than or equal to the minimum of 0">>,
      <<Has(b, "water_temp_c") /\ (V(b, "water_temp_c") < 0 \/ V(b, "water_temp_c") > 100),
        "water_temp_c is out of range">>,
      <<Has(b, "grind") /\ V(b, "grind") \notin GRIND_ENUM, "grind is not one of">>,
      <<Has(b, "duration_s") /\ V(b, "duration_s") <= 0,
        "duration_s is less than or equal to the minimum of 0">>,
      <<Has(b, "method") /\ V(b, "method") = "", "method is too short">>,
      <<Has(b, "notes") /\ V(b, "notes") = "", "notes is too short">> >>)
      \o (IF Has(b, "coffee") THEN CoffeeErrors(V(b, "coffee")) ELSE <<>>)
      \o (IF Has(b, "water") THEN WaterErrors(V(b, "water")) ELSE <<>>)
      \o (IF Has(b, "equipment") THEN EquipmentErrors(V(b, "equipment")) ELSE <<>>)
      \o (IF Has(b, "result") THEN ResultErrors(V(b, "result")) ELSE <<>>)

RECURSIVE AllBrewErrors(_)
AllBrewErrors(brews) ==
    IF Len(brews) = 0 THEN <<>>
    ELSE BrewErrors(Head(brews)) \o AllBrewErrors(Tail(brews))

\* A version value is its type and its text: the string "0.4" is
\* [t |-> "str", repr |-> "0.4"], the YAML number 0.4 is [t |-> "float", ...].
VersionIsConst(v) == v.t = "str" /\ v.repr = "0.4"

validate_document(doc) ==
    Failed(<<
      <<~(DOMAIN doc \subseteq {"brewspec_version", "brews"}),
        "Additional properties are not allowed">>,
      <<~Has(doc, "brewspec_version"), "'brewspec_version' is a required property">>,
      <<~Has(doc, "brews"), "'brews' is a required property">>,
      <<Has(doc, "brewspec_version") /\
            (IsNone(doc["brewspec_version"]) \/ ~VersionIsConst(V(doc, "brewspec_version"))),
        "'0.4' was expected">>,
      <<Has(doc, "brews") /\ (IsNone(doc["brews"]) \/ Len(V(doc, "brews")) = 0),
        "brews is too short">> >>)
      \o (IF Has(doc, "brews") /\ ~IsNone(doc["brews"])
          THEN AllBrewErrors(V(doc, "brews")) ELSE <<>>)

\* ------------------------------------------------------------------ commands/import_.py

\* What a command leaves: the database file, its exit code and message, and
\* the steps it took, in order.
Result(d, exit, msg, version, count, tr) ==
    [disk |-> d, exit |-> exit, msg |-> msg, version |-> version,
     count |-> count, trace |-> tr]

\* in_path.suffix.lower()
Lower(suffix) ==
    CASE suffix = ".YAML" -> ".yaml"
      [] suffix = ".JSON" -> ".json"
      [] OTHER -> suffix

\* yaml.safe_load / json.loads of the file's text.  The text is empty, not
\* well-formed, a top-level list, or a mapping; an empty YAML text loads as None.
ParseText(fmt, content) ==
    CASE content.kind = "garbage" -> [err |-> "parse error", isdict |-> FALSE, doc |-> EmptyDict]
      [] content.kind = "empty" ->
            IF fmt = "yaml"
            THEN [err |-> OK, isdict |-> FALSE, doc |-> EmptyDict]
            ELSE [err |-> "parse error", isdict |-> FALSE, doc |-> EmptyDict]
      [] content.kind = "list" -> [err |-> OK, isdict |-> FALSE, doc |-> EmptyDict]
      [] OTHER -> [err |-> OK, isdict |-> TRUE, doc |-> content.doc]

\* str(doc.get("brewspec_version", ""))
FileVersion(doc) ==
    IF ~Has(doc, "brewspec_version") THEN ""
    ELSE IF IsNone(doc["brewspec_version"]) THEN "None"
    ELSE V(doc, "brewspec_version").repr

\* Gates that let everything through.
VersionAccepted(file_version) == FALSE
SchemaAccepted(errors) == FALSE

\* `if file_version != "0.4"`
VersionRejected(file_version) == file_version # "0.4"

\* `if errors`
SchemaRejected(errors) == Len(errors) > 0

\* `for brew_dict in brews: db.insert_brew_dict(brew_dict, conn)`, to the
\* first insert that raises.
RECURSIVE InsertAll(_, _)
InsertAll(brews, conn) ==
    IF Len(brews) = 0 THEN [conn |-> conn, err |-> OK, done |-> 0]
    ELSE LET r == insert_brew_dict(Head(brews), conn)
         IN IF r.err # OK THEN [conn |-> r.conn, err |-> r.err, done |-> 0]
            ELSE LET rest == InsertAll(Tail(brews), r.conn)
                 IN [rest EXCEPT !.done = @ + 1]

Repeat(x, n) == [i \in 1..n |-> x]

\* The transaction: get_connection, BEGIN, the inserts, commit or rollback, close.
ImportInsert(brews, d, faultAt, tr) ==
    LET g == get_connection(d, faultAt)
        t1 == tr \o <<"get_connection">>
    IN IF g.err # OK
       THEN Result(Close(g.conn), 1, g.err, "", 0, t1)
       ELSE LET r == InsertAll(brews, g.conn)
                t2 == t1 \o <<"BEGIN">> \o Repeat("insert_brew_dict", r.done)
            IN IF r.err = OK
               THEN Result(Close(Commit(r.conn)), 0, "Imported brews.", "", Len(brews),
                           t2 \o <<"commit", "close">>)
               ELSE Result(Close(Rollback(r.conn)), 1,
                           "Error: failed to insert brews. No changes written.", "", 0,
                           t2 \o <<"insert_brew_dict raised", "rollback", "close">>)

\* `doc.get("brews", [])`
DocBrews(doc) == IF Has(doc, "brews") /\ ~IsNone(doc["brews"]) THEN V(doc, "brews") ELSE <<>>

ImportChecked(doc, d, faultAt, tr) ==
    LET file_version == FileVersion(doc)
        t1 == tr \o <<"version check">>
    IN IF VersionRejected(file_version)
       THEN Result(d, 1, "Error: This file uses BrewSpec v{version}, which is not supported",
                   IF file_version # "" THEN file_version ELSE "(unknown)", 0, t1)
       ELSE LET errors == validate_document(doc)
                t2 == t1 \o <<"validate_document">>
            IN IF SchemaRejected(errors)
               THEN Result(d, 1, "Validation failed:", "", 0, t2)
               ELSE ImportInsert(DocBrews(doc), d, faultAt, t2)

import_cmd(f, d, faultAt) ==
    LET v == validate_import_path(f)
        suffix == Lower(f.suffix)
        fmt == IF suffix \in {".yaml", ".yml"} THEN "yaml"
               ELSE IF suffix = ".json" THEN "json" ELSE ""
        p == ParseText(fmt, f.content)
        t1 == v.trace \o <<"read_text", "parse">>
    IN IF v.err # OK THEN Result(d, 1, v.err, "", 0, v.trace)
       ELSE IF fmt = "" THEN Result(d, 1, "Error: unrecognised file extension", "", 0, v.trace)
       ELSE IF p.err # OK THEN Result(d, 1, "Error parsing", "", 0, t1)
       ELSE IF ~p.isdict
       THEN Result(d, 1, "Error: file content is not a valid BrewSpec document.", "", 0, t1)
       ELSE ImportChecked(p.doc, d, faultAt, t1)

\* ------------------------------------------------------------------ db.py: update and queries

\* An assertion that never fires.
AllowListedAlways(updates) == TRUE

\* The assertion of update_brew: set(updates.keys()).issubset(UPDATABLE_COLUMNS)
AllowListed(updates) == DOMAIN updates \subseteq UPDATABLE_COLUMNS

\* An UPDATE without its WHERE clause: every row gets the values.
ExecuteUpdateEveryRow(conn, brew_id, updates) ==
    LET w == conn.work
        hit == brew_id \in DOMAIN w.rows
    IN IF DOMAIN updates = {} \/ ~(DOMAIN updates \subseteq Range(w.columns))
       THEN [conn |-> conn, err |-> "OperationalError", found |-> FALSE, sql |-> TRUE]
       ELSE [conn |-> Commit([conn EXCEPT !.work.rows =
                         [i \in DOMAIN @ |-> updates @@ @[i]]]),
             err |-> OK, found |-> hit, sql |-> TRUE]

\* conn.execute("UPDATE brews SET col = ?, ... WHERE id = ?"); commit.
ExecuteUpdate(conn, brew_id, updates) ==
    LET w == conn.work
        hit == brew_id \in DOMAIN w.rows
    IN IF DOMAIN updates = {} \/ ~(DOMAIN updates \subseteq Range(w.columns))
       THEN [conn |-> conn, err |-> "OperationalError", found |-> FALSE, sql |-> TRUE]
       ELSE [conn |-> Commit([conn EXCEPT !.work.rows =
                         [i \in DOMAIN @ |-> IF i = brew_id THEN updates @@ @[i] ELSE @[i]]]),
             err |-> OK, found |-> hit, sql |-> TRUE]

update_brew(brew_id, updates, conn) ==
    IF ~AllowListed(updates)
    THEN [conn |-> conn, err |-> "AssertionError", found |-> FALSE, sql |-> FALSE]
    ELSE ExecuteUpdate(conn, brew_id, updates)

\* The order of the date strings the model uses, as sqlite compares text.
DATE_ORDER ==
    << "2026-01-01", "2026-01-20", "2026-02-19", "2026-02-19T08:30:00Z", "2026-02-21",
       "2026-02-21T09:00:00Z", "2026-13-01" >>
DateRank(s) == CHOOSE i \in 1..Len(DATE_ORDER) : DATE_ORDER[i] = s

\* ORDER BY date DESC: the ids, latest date first, equal dates in id order.
RECURSIVE OrderByDateDesc(_, _)
OrderByDateDesc(rows, ids) ==
    IF ids = {} THEN <<>>
    ELSE LET first == CHOOSE i \in ids : \A j \in ids :
                          \/ DateRank(rows[i]["date"][1]) > DateRank(rows[j]["date"][1])
                          \/ /\ DateRank(rows[i]["date"][1]) = DateRank(rows[j]["date"][1])
                             /\ i <= j
         IN <<first>> \o OrderByDateDesc(rows, ids \ {first})

\* get_all_brews: SELECT * FROM brews ORDER BY date DESC
get_all_brews(conn) ==
    LET ids == OrderByDateDesc(conn.work.rows, DOMAIN conn.work.rows)
    IN [i \in 1..Len(ids) |-> conn.work.rows[ids[i]]]

\* A substr that takes the whole string.
SubstrWhole(s) == s

\* substr(date, 1, 10): the first ten characters, the day of a date-time.
Substr10(s) ==
    CASE s = "2026-02-19T08:30:00Z" -> "2026-02-19"
      [] s = "2026-02-21T09:00:00Z" -> "2026-02-21"
      [] OTHER -> s

\* The conditions of list_brews_filtered, joined by AND; a comparison with a
\* NULL rating is not true.
\* q is the query's arguments by name: limit, all_rows, brew_type, since,
\* until, rating_min, rating_max.
Matches(row, q) ==
    LET day == Substr10(row["date"][1])
        overall == Get(row, "result_rating_overall")
    IN /\ IsNone(q.brew_type) \/ row["type"] = q.brew_type
       /\ IsNone(q.since) \/ DateRank(day) >= DateRank(q.since[1])
       /\ IsNone(q.until) \/ DateRank(day) <= DateRank(q.until[1])
       /\ IsNone(q.rating_min) \/ (~IsNone(overall) /\ overall[1] >= q.rating_min[1])
       /\ IsNone(q.rating_max) \/ (~IsNone(overall) /\ overall[1] <= q.rating_max[1])

\* ORDER BY date DESC: the orders of the ids the engine may give, latest date
\* first; rows of the same date come in whatever order the engine takes.
DateDescOrders(rows) ==
    LET ids == DOMAIN rows
        n == Cardinality(ids)
    IN { o \in [1..n -> ids] :
           /\ \A i, j \in 1..n : i # j => o[i] # o[j]
           /\ \A i, j \in 1..n :
                  i < j => DateRank(rows[o[i]]["date"][1]) >= DateRank(rows[o[j]]["date"][1]) }

\* LIMIT ?: the first n of the rows; a negative n is no limit.
Limit(seq, n) == IF n < 0 \/ n >= Len(seq) THEN seq ELSE SubSeq(seq, 1, n)

\* A query that cuts the ordered rows to the limit and filters what is left.
list_brews_filtered_limit_first(conn, q, order) ==
    LET rows == conn.work.rows
        cut == IF q.all_rows THEN order ELSE Limit(order, q.limit)
        ids == SelectSeq(cut, LAMBDA id : Matches(rows[id], q))
    IN [i \in 1..Len(ids) |-> rows[ids[i]]]

\* list_brews_filtered: SELECT * FROM brews WHERE ... ORDER BY date DESC
\* [LIMIT ?].  `order` is the order the engine gives the table's rows.
list_brews_filtered(conn, q, order) ==
    LET rows == conn.work.rows
        matching == SelectSeq(order, LAMBDA id : Matches(rows[id], q))
        ids == IF q.all_rows THEN matching ELSE Limit(matching, q.limit)
    IN [i \in 1..Len(ids) |-> rows[ids[i]]]

\* list_brews: SELECT * FROM brews ORDER BY date DESC [LIMIT ?]
list_brews(conn, limit, all_rows, order) ==
    LET rows == conn.work.rows
        ids == IF all_rows THEN order ELSE Limit(order, limit)
    IN [i \in 1..Len(ids) |-> rows[ids[i]]]

\* get_brew: SELECT * FROM brews WHERE id = ?  (None when no row has the id).
get_brew(brew_id, conn) ==
    IF brew_id \in DOMAIN conn.work.rows THEN Some(conn.work.rows[brew_id]) ELSE Null

\* delete_brew: DELETE FROM brews WHERE id = ?; commit; rowcount > 0.
delete_brew(brew_id, conn) ==
    LET found == brew_id \in DOMAIN conn.work.rows
        rows == conn.work.rows
    IN [ conn |-> Commit([conn EXCEPT
                     !.work.rows = [i \in DOMAIN rows \ {brew_id} |-> rows[i]]]),
         found |-> found ]

\* ------------------------------------------------------------------ commands/delete.py

\* delete: the id check, get_connection, get_brew, the prompt unless --force,
\* delete_brew, close.
delete(brew_id, force, answer, d) ==
    LET g == get_connection(d, 0)
        t1 == <<"get_connection", "get_brew">>
        r == delete_brew(brew_id, g.conn)
    IN IF brew_id <= 0
       THEN Result(d, 1, "Error: brew ID must be a positive integer.", "", 0, <<>>)
       ELSE IF g.err # OK THEN Result(Close(g.conn), 1, g.err, "", 0, <<"get_connection">>)
       ELSE IF IsNone(get_brew(brew_id, g.conn))
       THEN Result(Close(g.conn), 1, "Error: brew not found.", "", 0, t1 \o <<"close">>)
       ELSE IF ~force /\ ~answer
       THEN Result(Close(g.conn), 0, "Cancelled.", "", 0, t1 \o <<"confirm", "close">>)
       ELSE Result(Close(r.conn), 0, "Brew deleted.", "", 1,
                   t1 \o (IF force THEN <<>> ELSE <<"confirm">>)
                      \o <<"delete_brew", "close">>)

\* ------------------------------------------------------------------ commands/export.py

\* validate_export_path of serialise.py: its one parameter, and its checks.
VALIDATE_EXPORT_PATH_PARAMS == {"path_str"}

validate_export_path(p) ==
    IF ".." \in Range(p.parts) THEN "Error: path must not contain '..' components."
    ELSE IF Lower(p.suffix) \notin {".yaml", ".yml", ".json"}
    THEN "Error: output path must end with .yaml, .yml, or .json."
    ELSE IF ~p.parent_exists THEN "Error: directory does not exist."
    ELSE OK

\* A call binds its keyword arguments to parameters of those names; Python
\* raises TypeError for a keyword the function does not have.
CallAccepts(params, keywords) == keywords \subseteq params

\* What export leaves: the database file, the destination file, the exit
\* code and message, the warned (id, grind) pairs and the steps taken.
ExportResult(d, file, exit, msg, warned, count, tr) ==
    [disk |-> d, outfile |-> file, exit |-> exit, msg |-> msg, warned |-> warned,
     count |-> count, trace |-> tr]

\* The loop over the rows: the brew dicts without the sentinel, and the
\* (id, raw grind) pairs of the rows that had it.
RECURSIVE BuildBrews(_)
BuildBrews(rows) ==
    IF Len(rows) = 0 THEN [brews |-> <<>>, warned |-> <<>>]
    ELSE LET brew_dict == row_to_brew_dict(Head(rows))
             rest == BuildBrews(Tail(rows))
         IN IF "_invalid_grind" \in DOMAIN brew_dict
            THEN [brews |-> <<Pop(brew_dict, "_invalid_grind")>> \o rest.brews,
                  warned |-> << <<Head(rows)["id"][1], brew_dict["_invalid_grind"][1]>> >>
                             \o rest.warned]
            ELSE [brews |-> <<brew_dict>> \o rest.brews, warned |-> rest.warned]

\* export, from the fetched rows on.
ExportRows(rows, p, fmt, force, answer, d, file, tr) ==
    LET asked == ~IsNone(file) /\ ~force
        t1 == IF asked THEN tr \o <<"confirm">> ELSE tr
        b == BuildBrews(rows)
        document == [ brewspec_version |-> Some([t |-> "str", repr |-> "0.4"]),
                      brews |-> Some(b.brews) ]
        errors == validate_document(document)
        t2 == t1 \o <<"build", "validate_document">>
    IN IF Len(rows) = 0
       THEN ExportResult(d, file, 0, "No brews to export.", <<>>, 0, tr)
       ELSE IF asked /\ ~answer
       THEN ExportResult(d, file, 0, "Export cancelled.", <<>>, 0, t1)
       ELSE IF fmt = "csv"
       THEN ExportResult(d, Some([fmt |-> "csv", rows |-> rows]), 0, "Exported",
                         <<>>, Len(rows), t1 \o <<"write_text">>)
       ELSE IF Len(errors) > 0
       THEN ExportResult(d, file, 1,
                         "Internal error: serialised document failed schema validation.",
                         b.warned, 0, t2)
       ELSE ExportResult(d, Some([fmt |-> fmt, document |-> document]), 0, "Exported",
                         b.warned, Len(rows), t2 \o <<"write_text">>)

\* An export that checks neither the path nor the permission to overwrite.
export_unchecked(p, fmt, force, answer, d, file) ==
    LET g == get_connection(d, 0)
    IN ExportRows(get_all_brews(g.conn), p, fmt, TRUE, answer, Close(g.conn), file,
                  <<"get_connection", "get_all_brews", "close">>)

\* export: `serialise.validate_export_path(path, fmt=fmt)`, get_connection,
\* get_all_brews, close, and the rest.
export(p, fmt, force, answer, d, file) ==
    IF ~CallAccepts(VALIDATE_EXPORT_PATH_PARAMS, {"fmt"})
    THEN ExportResult(d, file, 1, "TypeError", <<>>, 0, <<"validate_export_path raised">>)
    ELSE LET e == validate_export_path(p)
             g == get_connection(d, 0)
             t1 == <<"validate_export_path", "get_connection">>
         IN IF e # OK THEN ExportResult(d, file, 1, e, <<>>, 0, <<"validate_export_path">>)
            ELSE IF g.err # OK THEN ExportResult(Close(g.conn), file, 1, g.err, <<>>, 0, t1)
            ELSE ExportRows(get_all_brews(g.conn), p, fmt, force, answer,
                            Close(g.conn), file, t1 \o <<"get_all_brews", "close">>)

\* ------------------------------------------------------------------ inputs

V04 == [t |-> "str", repr |-> "0.4"]

\* The versions of the documents: strings, and the YAML number 0.4.
OTHER_VERSIONS ==
    { [t |-> "str", repr |-> "0.3"], [t |-> "str", repr |-> ""],
      [t |-> "float", repr |-> "0.4"] }

\* The brew of the tests' minimal_brew_dict.
B_MIN ==
    [ date |-> Some("2026-02-19T08:30:00Z"), type |-> Some("pour_over"),
      dose_g |-> Some(18), water_weight_g |-> Some(280) ]

\* A brew with every field, after the tests' full_brew_dict.
B_FULL ==
    [ date |-> Some("2026-02-21"), type |-> Some("espresso"),
      method |-> Some("Hario V60"), dose_g |-> Some(18), water_weight_g |-> Some(36),
      water_volume_ml |-> Some(40), water_temp_c |-> Some(96),
      grind |-> Some("medium_fine"), duration_s |-> Some(180),
      notes |-> Some("Bright acidity"),
      coffee |-> Some([ roast_date |-> Some("2026-01-20"), type |-> Some("blend"),
                        origin |-> Some(<<"Ethiopia", "Colombia">>),
                        varietal |-> Some("Heirloom"), process |-> Some("Washed") ]),
      water |-> Some([ppm |-> Some(150)]),
      equipment |-> Some([grinder |-> Some("Comandante C40"), brewer |-> Some("V60 02")]),
      result |-> Some([ tds |-> Some(1), ey |-> Some(20), brix |-> Some(0),
                        tasting_notes |-> Some("Citrus"),
                        ratings |-> Some([overall |-> Some(4), acidity |-> Some(5)]) ]) ]

\* A brew with a v0.3 freeform grind, and one without dose_g: not schema-valid.
B_BADGRIND == Put(B_MIN, "grind", Some("medium-fine"))
B_NODOSE == Pop(B_MIN, "dose_g")

DOC_BREWS == {B_MIN, B_FULL, B_BADGRIND, B_NODOSE}

\* The brews of a document: up to MaxBrews of them, in any order.
BrewSeqs == UNION {[1..n -> DOC_BREWS] : n \in 0..MaxBrews}

Docs ==
    { [brewspec_version |-> Some(V04), brews |-> Some(bs)] : bs \in BrewSeqs }
    \cup { [brewspec_version |-> Some(v), brews |-> Some(bs)] :
               v \in OTHER_VERSIONS, bs \in {<<B_MIN>>, <<B_BADGRIND>>} }
    \cup { [brews |-> Some(<<B_MIN>>)], [brewspec_version |-> Some(V04)],
           [brewspec_version |-> Null, brews |-> Some(<<B_MIN>>)] }

VALID_DOC == [brewspec_version |-> Some(V04), brews |-> Some(<<B_MIN>>)]

File(parts, suffix, exists, size, content) ==
    [parts |-> parts, suffix |-> suffix, exists |-> exists, size |-> size,
     content |-> content]

Mapping(doc) == [kind |-> "mapping", doc |-> doc]

ImportFiles ==
    { File(<<"data", "brews">>, ".yaml", TRUE, 1024, Mapping(d)) : d \in Docs }
    \cup { File(<<"data", "brews">>, sfx, TRUE, 1024, Mapping(VALID_DOC)) :
               sfx \in {".json", ".yml", ".YAML", ".csv"} }
    \cup { File(<<"data", "brews">>, ".yaml", TRUE, size, Mapping(VALID_DOC)) :
               size \in {MAX_BYTES, MAX_BYTES + 1} }
    \cup { File(<<"..", "brews">>, ".yaml", TRUE, 1024, Mapping(VALID_DOC)),
           File(<<"data", "..", "brews">>, ".yaml", TRUE, 1024, Mapping(VALID_DOC)),
           File(<<"data", "brews">>, ".yaml", FALSE, 0, [kind |-> "empty"]) }
    \cup { File(<<"data", "brews">>, sfx, TRUE, 0, [kind |-> "empty"]) :
               sfx \in {".yaml", ".json"} }
    \cup { File(<<"data", "brews">>, sfx, TRUE, 1024, [kind |-> k]) :
               sfx \in {".yaml", ".json"}, k \in {"garbage", "list"} }

\* The BrewInput objects insert_brew is called with, after the tests'
\* _minimal_brew and _full_brew: the models of the brews B_MIN and B_FULL.
BI_MIN ==
    [ date |-> Some("2026-02-19T08:30:00Z"), type |-> Some("pour_over"),
      dose_g |-> Some(18), water_weight_g |-> Some(280) ]

BI_FULL ==
    [ date |-> Some("2026-02-21"), type |-> Some("espresso"),
      method |-> Some("Hario V60"), dose_g |-> Some(18), water_weight_g |-> Some(36),
      water_volume_ml |-> Some(40), water_temp_c |-> Some(96),
      grind |-> Some("medium_fine"), duration_s |-> Some(180),
      notes |-> Some("Bright acidity"),
      coffee |-> Some([ roast_date |-> Some("2026-01-20"), type |-> Some("blend"),
                        origin |-> Some(<<"Ethiopia", "Colombia">>),
                        varietal |-> Some("Heirloom"), process |-> Some("Washed") ]),
      water |-> Some([ppm |-> Some(150)]),
      equipment |-> Some([grinder |-> Some("Comandante C40"), brewer |-> Some("V60 02")]),
      result |-> Some([ tds |-> Some(1), ey |-> Some(20), brix |-> Some(0),
                        tasting_notes |-> Some("Citrus"),
                        ratings |-> Some([overall |-> Some(4), acidity |-> Some(5)]) ]) ]

BREW_INPUTS == {BI_MIN, BI_FULL}

\* The mappings update_brew is called with: allow-listed columns, and columns
\* outside the allow-list alone or together with allow-listed ones.
UPDATES ==
    { [notes |-> Some("test"), result_rating_overall |-> Some(4)],
      [evil_col |-> Some("x")],
      [id |-> Some(99)],
      [date |-> Some("2026-01-01")],
      [type |-> Some("espresso")],
      [dose_g |-> Some(1)],
      [water_weight_g |-> Some(1)],
      [water_volume_ml |-> Some(300)],
      [result_ratings |-> Some("{overall: 1}")],
      [notes |-> Some("test"), date |-> Some("2026-01-01")] }

ExportPaths ==
    { [parts |-> ps, suffix |-> sfx, parent_exists |-> pe] :
          ps \in {<<"out", "brews">>}, sfx \in {".yaml", ".csv"}, pe \in {TRUE} }
    \cup { [parts |-> <<"..", "brews">>, suffix |-> ".yaml", parent_exists |-> TRUE],
           [parts |-> <<"out", "brews">>, suffix |-> ".json", parent_exists |-> FALSE] }

\* ------------------------------------------------------------------ the initial files

\* A file that is at the export path before any export: not an export's work.
OTHER_FILE == [fmt |-> "other"]


Row(cols, values) == [c \in Range(cols) |-> IF c \in DOMAIN values THEN values[c] ELSE Null]

\* A database of the previous version: every column but the eight rating
\* columns, one row with a freeform grind and the ratings blob.
V2_COLUMNS == SelectSeq(SCHEMA_COLUMNS, LAMBDA c : c \notin Range(V3_MIGRATION_COLUMNS))
LEGACY_V2 ==
    [ exists |-> TRUE, columns |-> V2_COLUMNS, seq |-> 1,
      rows |-> (1 :> Row(V2_COLUMNS,
                   [ id |-> Some(1), date |-> Some("2026-01-20"), type |-> Some("immersion"),
                     dose_g |-> Some(15), water_weight_g |-> Some(250),
                     grind |-> Some("medium-fine"),
                     result_ratings |-> Some("{overall: 4}") ])) ]

\* The old tables of tests/test_db.py: "v0.2-style", with few columns.
OLD_A_COLUMNS ==
    << "id", "date", "type", "dose_g", "water_weight_g", "result_tds", "result_ey",
       "result_brix", "result_tasting_notes", "result_ratings" >>
OLD_A == [exists |-> TRUE, columns |-> OLD_A_COLUMNS, seq |-> 0, rows |-> <<>>]

OLD_B_COLUMNS == <<"id", "date", "type", "dose_g", "water_weight_g", "result_ratings">>
OLD_B ==
    [ exists |-> TRUE, columns |-> OLD_B_COLUMNS, seq |-> 1,
      rows |-> (1 :> Row(OLD_B_COLUMNS,
                   [ id |-> Some(1), date |-> Some("2026-01-01"), type |-> Some("pour_over"),
                     dose_g |-> Some(18), water_weight_g |-> Some(280) ])) ]

InitialDisks == {NoTable, LEGACY_V2, OLD_A, OLD_B}

\* ------------------------------------------------------------------ the state machine

Outcome(cmd, r) ==
    [ cmd |-> cmd, exit |-> r.exit, msg |-> r.msg,
      version |-> IF "version" \in DOMAIN r THEN r.version ELSE "",
      count |-> r.count,
      warned |-> IF "warned" \in DOMAIN r THEN r.warned ELSE <<>>,
      found |-> IF "found" \in DOMAIN r THEN r.found ELSE FALSE,
      id |-> IF "id" \in DOMAIN r THEN r.id ELSE 0,
      rows |-> IF "rows" \in DOMAIN r THEN r.rows ELSE <<>> ]

NoOutcome ==
    [cmd |-> "", exit |-> 0, msg |-> "", version |-> "", count |-> 0,
     warned |-> <<>>, found |-> FALSE, id |-> 0, rows |-> <<>>]

Opened(tr) == "get_connection" \in Range(tr)
Bump(n) == IF n < 2 THEN n + 1 ELSE n

\* The arguments of a list query: none given, and the defaults.
NoQuery ==
    [ limit |-> 20, all_rows |-> FALSE, brew_type |-> Null, since |-> Null,
      until |-> Null, rating_min |-> Null, rating_max |-> Null ]

NoInput ==
    [ defect |-> "", vtype |-> "", vtext |-> "", rest_valid |-> FALSE, brews |-> 0,
      faultAt |-> 0, columns |-> {}, brew_id |-> 0, path_ok |-> FALSE,
      permitted |-> FALSE, fmt |-> "", revalidated |-> FALSE, size |-> 0,
      updates |-> <<>>, query |-> NoQuery, blank |-> FALSE ]

\* No command is running.
Idle == outcome = NoOutcome

Init ==
    /\ disk \in InitialDisks
    /\ outfile \in {Null, Some(OTHER_FILE)}
    /\ pre = disk
    /\ outcome = NoOutcome
    /\ trace = <<>>
    /\ opens = 0
    /\ assigned = DOMAIN disk.rows
    /\ input = NoInput
    /\ out = Null

\* ------------------------------------------------------------------ what a command was given

\* What is wrong with an import file, told from the file alone.
Defect(f) ==
    IF ".." \in Range(f.parts) THEN "traversal"
    ELSE IF ~f.exists THEN "missing"
    ELSE IF f.size = 0 THEN "empty"
    ELSE IF f.size > MAX_BYTES THEN "oversize"
    ELSE IF Lower(f.suffix) \notin {".yaml", ".yml", ".json"} THEN "extension"
    ELSE IF f.content.kind = "garbage" THEN "parse"
    ELSE IF f.content.kind # "mapping" THEN "not a mapping"
    ELSE IF ~Has(f.content.doc, "brewspec_version")
            \/ IsNone(f.content.doc["brewspec_version"])
            \/ ~VersionIsConst(V(f.content.doc, "brewspec_version")) THEN "version"
    ELSE IF Len(validate_document(f.content.doc)) > 0 THEN "schema"
    ELSE "none"

\* The file parses to a mapping.
Parsed(f) ==
    Defect(f) \notin {"traversal", "missing", "empty", "oversize", "extension",
                      "parse", "not a mapping"}

\* The type and text of a parsed document's version tag.
VersionType(f) ==
    IF ~Parsed(f) THEN ""
    ELSE IF ~Has(f.content.doc, "brewspec_version") THEN "absent"
    ELSE IF IsNone(f.content.doc["brewspec_version"]) THEN "none"
    ELSE V(f.content.doc, "brewspec_version").t

VersionText(f) ==
    IF VersionType(f) \in {"str", "float"}
    THEN V(f.content.doc, "brewspec_version").repr ELSE ""

\* The document would be schema-valid with the version tag "0.4".
RestValid(f) ==
    Parsed(f) /\ Len(validate_document(Put(f.content.doc, "brewspec_version", Some(V04)))) = 0

ImportInput(f, faultAt) ==
    [ NoInput EXCEPT !.defect = Defect(f), !.vtype = VersionType(f),
                     !.vtext = VersionText(f), !.rest_valid = RestValid(f),
                     !.brews = IF Parsed(f) THEN Len(DocBrews(f.content.doc)) ELSE 0,
                     !.faultAt = faultAt, !.size = f.size ]

\* An export path is in order for a format when it has no '..' part, its
\* directory exists and its extension is one of the format's.
ExportPathOK(p, fmt) ==
    /\ ".." \notin Range(p.parts)
    /\ p.parent_exists
    /\ Lower(p.suffix) \in (IF fmt = "csv" THEN {".csv"} ELSE {".yaml", ".yml", ".json"})

\* The document export builds from the rows of a store passes validate_document.
Revalidated(d) ==
    LET g == get_connection(d, 0)
        b == BuildBrews(get_all_brews(g.conn))
    IN Len(validate_document([ brewspec_version |-> Some(V04),
                               brews |-> Some(b.brews) ])) = 0

\* The inserts a file can lead to: the engine's fault falls on one of them, or on none.
Inserts(f) ==
    IF f.content.kind = "mapping" /\ SchemaRejected(validate_document(f.content.doc)) = FALSE
    THEN Len(DocBrews(f.content.doc)) ELSE 0

\* brewlog import PATH
Import ==
    /\ Idle
    /\ \E f \in ImportFiles : \E faultAt \in 0..Inserts(f) :
        LET r == import_cmd(f, disk, faultAt)
        IN /\ Cardinality(DOMAIN r.disk.rows) <= MaxRows
           /\ r.disk.seq <= MaxIds
           /\ disk' = r.disk
           /\ pre' = disk
           /\ outcome' = Outcome("import", r)
           /\ trace' = r.trace
           /\ opens' = IF Opened(r.trace) THEN Bump(opens) ELSE opens
           /\ input' = ImportInput(f, faultAt)
           /\ assigned' = assigned \cup DOMAIN disk'.rows
           /\ UNCHANGED <<outfile, out>>

\* A command that opens the store and closes it: get_connection(); close().
OpenStore ==
    LET g == get_connection(disk, 0)
    IN /\ Idle
       /\ disk' = Close(g.conn)
       /\ pre' = disk
       /\ outcome' = Outcome("open", [exit |-> IF g.err = OK THEN 0 ELSE 1,
                                       msg |-> g.err, count |-> 0])
       /\ trace' = <<"get_connection", "close">>
       /\ opens' = Bump(opens)
       /\ input' = NoInput
       /\ assigned' = assigned \cup DOMAIN disk'.rows
       /\ UNCHANGED <<outfile, out>>

\* A call of db.update_brew on an open connection, closed afterwards.
UpdateBrew ==
    /\ Idle
    /\ \E brew_id \in 1..MaxRows, updates \in UPDATES :
        LET g == get_connection(disk, 0)
            u == update_brew(brew_id, updates, g.conn)
        IN /\ g.err = OK
           /\ disk' = Close(u.conn)
           /\ pre' = disk
           /\ outcome' = Outcome("update_brew",
                              [exit |-> IF u.err = OK THEN 0 ELSE 1, msg |-> u.err,
                               count |-> 0, found |-> u.found])
           /\ trace' = <<"get_connection">>
                         \o (IF u.sql THEN <<"UPDATE">> ELSE <<>>) \o <<"close">>
           /\ opens' = Bump(opens)
           /\ input' = [NoInput EXCEPT !.columns = DOMAIN updates, !.brew_id = brew_id,
                                       !.updates = updates]
           /\ assigned' = assigned \cup DOMAIN disk'.rows
           /\ UNCHANGED <<outfile, out>>

\* brewlog export PATH [--format FMT] [--force]
Export ==
    /\ Idle
    /\ \E p \in ExportPaths, fmt \in {"yaml", "json", "csv"}, force \in BOOLEAN,
       answer \in BOOLEAN :
        LET r == export(p, fmt, force, answer, disk, outfile)
        IN /\ disk' = r.disk
           /\ outfile' = r.outfile
           /\ pre' = disk
           /\ outcome' = Outcome("export", r)
           /\ trace' = r.trace
           /\ opens' = IF Opened(r.trace) THEN Bump(opens) ELSE opens
           /\ input' = [NoInput EXCEPT !.path_ok = ExportPathOK(p, fmt),
                                       !.permitted = IsNone(outfile) \/ force \/ answer,
                                       !.fmt = fmt,
                                       !.revalidated = Revalidated(disk)]
           /\ assigned' = assigned \cup DOMAIN disk'.rows
           /\ UNCHANGED out

\* A call of db.insert_brew on an open connection, closed afterwards.
InsertBrew ==
    /\ Idle
    /\ \E brew \in BREW_INPUTS :
        LET g == get_connection(disk, 0)
            r == insert_brew(brew, g.conn)
        IN /\ g.err = OK
           /\ Cardinality(DOMAIN r.conn.committed.rows) <= MaxRows
           /\ r.conn.committed.seq <= MaxIds
           /\ disk' = Close(r.conn)
           /\ pre' = disk
           /\ outcome' = Outcome("insert_brew",
                              [exit |-> IF r.err = OK THEN 0 ELSE 1, msg |-> r.err,
                               count |-> 0, id |-> r.lastrowid])
           /\ trace' = <<"get_connection", "insert_brew", "close">>
           /\ opens' = Bump(opens)
           /\ input' = NoInput
           /\ assigned' = assigned \cup DOMAIN disk'.rows
           /\ UNCHANGED <<outfile, out>>

\* brewlog delete BREW_ID [--force]
Delete ==
    /\ Idle
    /\ \E brew_id \in 0..MaxIds, force \in BOOLEAN, answer \in BOOLEAN :
        LET r == delete(brew_id, force, answer, disk)
        IN /\ disk' = r.disk
           /\ pre' = disk
           /\ outcome' = Outcome("delete", r)
           /\ trace' = r.trace
           /\ opens' = IF Opened(r.trace) THEN Bump(opens) ELSE opens
           /\ input' = [NoInput EXCEPT !.brew_id = brew_id]
           /\ assigned' = assigned \cup DOMAIN disk'.rows
           /\ UNCHANGED <<outfile, out>>

\* The command's process ends; what it was given and what it printed go with it,
\* the database file and the exported file stay.
Exit ==
    /\ ~Idle
    /\ outcome' = NoOutcome
    /\ trace' = <<>>
    /\ input' = NoInput
    /\ pre' = disk
    /\ UNCHANGED <<disk, outfile, opens, out, assigned>>

Next == Import \/ OpenStore \/ UpdateBrew \/ Export \/ InsertBrew \/ Delete \/ Exit

Spec == Init /\ [][Next]_vars

\* ------------------------------------------------------------------ the list queries

\* The arguments the list queries are called with.
LIMITS == 1..MaxRows
TYPE_FILTERS == {Null, Some("pour_over"), Some("espresso")}
DAY_FILTERS == {Null, Some("2026-02-19"), Some("2026-02-21")}
RATING_FILTERS == {Null, Some(4), Some(5)}

InitList ==
    /\ disk \in InitialDisks
    /\ outfile = Null
    /\ pre = disk
    /\ outcome = NoOutcome
    /\ trace = <<>>
    /\ opens = 0
    /\ assigned = DOMAIN disk.rows
    /\ input = NoInput
    /\ out = Null

\* A call of db.list_brews on an open connection, closed afterwards.
ListBrews ==
    /\ Idle
    /\ \E limit \in LIMITS, all_rows \in BOOLEAN :
        LET g == get_connection(disk, 0)
        IN \E order \in DateDescOrders(g.conn.work.rows) :
            /\ g.err = OK
            /\ disk' = Close(g.conn)
            /\ pre' = disk
            /\ outcome' = Outcome("list_brews",
                               [exit |-> 0, msg |-> OK, count |-> 0,
                                rows |-> list_brews(g.conn, limit, all_rows, order)])
            /\ trace' = <<"get_connection", "list_brews", "close">>
            /\ opens' = Bump(opens)
            /\ input' = [NoInput EXCEPT !.query.limit = limit, !.query.all_rows = all_rows]
            /\ assigned' = assigned \cup DOMAIN disk'.rows
            /\ UNCHANGED <<outfile, out>>

\* brewlog list: get_connection(); list_brews_filtered(...); close().
ListBrewsFiltered ==
    /\ Idle
    /\ \E limit \in LIMITS, all_rows \in BOOLEAN, brew_type \in TYPE_FILTERS,
          since \in DAY_FILTERS, until \in DAY_FILTERS,
          rating_min \in RATING_FILTERS, rating_max \in RATING_FILTERS :
        LET g == get_connection(disk, 0)
            q == [ limit |-> limit, all_rows |-> all_rows,
                   brew_type |-> brew_type, since |-> since, until |-> until,
                   rating_min |-> rating_min, rating_max |-> rating_max ]
        IN \E order \in DateDescOrders(g.conn.work.rows) :
            /\ g.err = OK
            /\ disk' = Close(g.conn)
            /\ pre' = disk
            /\ outcome' = Outcome("list_brews_filtered",
                               [exit |-> 0, msg |-> OK, count |-> 0,
                                rows |-> list_brews_filtered(g.conn, q, order)])
            /\ trace' = <<"get_connection", "list_brews_filtered", "close">>
            /\ opens' = Bump(opens)
            /\ input' = [NoInput EXCEPT !.query = q]
            /\ assigned' = assigned \cup DOMAIN disk'.rows
            /\ UNCHANGED <<outfile, out>>

NextList == InsertBrew \/ UpdateBrew \/ ListBrews \/ ListBrewsFiltered \/ Exit

SpecList == InitList /\ [][NextList]_vars

\* ------------------------------------------------------------------ the round trip of one brew

MaxOrigins == 2

ORIGINS == <<"Ethiopia", "Colombia", "Kenya", "Brazil">>
OriginLists == { SubSeq(ORIGINS, 1, n) : n \in 1..MaxOrigins }

Restrict(d, S) == [k \in S |-> d[k]]

\* The optional top-level fields; 0 is a value the schema allows for water_temp_c.
RT_SCALARS ==
    LET all == [ method |-> Some("Hario V60"), water_temp_c |-> Some(0),
                 grind |-> Some("medium_fine") ]
    IN { Restrict(all, S) : S \in SUBSET (DOMAIN all) }
       \cup { [grind |-> Some("medium-fine")] }

\* The sub-objects: absent (Null) or with some of their fields; equipment and
\* result also empty, which the schema's tests show to be valid.
RT_COFFEE ==
    { Null, Some([type |-> Some("blend")]) }
    \cup { Some([origin |-> Some(o)]) : o \in OriginLists }
    \cup { Some([ roast_date |-> Some("2026-01-20"), type |-> Some("single_origin"),
                  origin |-> Some(o), varietal |-> Some("Heirloom"),
                  process |-> Some("Washed") ]) : o \in OriginLists }

RT_WATER == { Null, Some([ppm |-> Some(0)]), Some([ppm |-> Some(150)]) }

RT_EQUIPMENT ==
    { Null, Some(EmptyDict), Some([grinder |-> Some("Comandante C40")]),
      Some([grinder |-> Some("Comandante C40"), brewer |-> Some("V60 02")]) }

RT_RESULT ==
    { Null, Some(EmptyDict), Some([brix |-> Some(0)]),
      Some([tds |-> Some(1), ratings |-> Some([acidity |-> Some(5)])]),
      Some([ratings |-> Some([overall |-> Some(4)])]),
      Some([ tds |-> Some(1), ey |-> Some(20), brix |-> Some(0),
             tasting_notes |-> Some("Citrus"),
             ratings |-> Some([k \in RATING_KEYS |-> Some(3)]) ]) }

WithSub(d, k, sub) == IF IsNone(sub) THEN d ELSE Put(d, k, sub)

RT_BREWS ==
    { WithSub(WithSub(WithSub(WithSub(sc @@ B_MIN, "coffee", c), "water", w),
                      "equipment", e), "result", r) :
          sc \in RT_SCALARS, c \in RT_COFFEE, w \in RT_WATER, e \in RT_EQUIPMENT,
          r \in RT_RESULT }

InitRT ==
    /\ disk \in {NoTable, LEGACY_V2}
    /\ input \in RT_BREWS
    /\ out = Null
    /\ outfile = Null
    /\ pre = disk
    /\ outcome = NoOutcome
    /\ trace = <<>>
    /\ opens = 0
    /\ assigned = DOMAIN disk.rows

\* get_connection; insert_brew_dict; commit; the stored row is read back and
\* given to row_to_brew_dict; close.
StoreAndRead ==
    LET g == get_connection(disk, 0)
        r == insert_brew_dict(input, g.conn)
        c == Commit(r.conn)
    IN /\ IsNone(out)
       /\ g.err = OK
       /\ r.err = OK
       /\ disk' = Close(c)
       /\ out' = Some(row_to_brew_dict(c.work.rows[r.lastrowid]))
       /\ opens' = Bump(opens)
       /\ assigned' = assigned \cup DOMAIN disk'.rows
       /\ UNCHANGED <<outfile, pre, outcome, trace, input>>

NextRT == StoreAndRead

SpecRT == InitRT /\ [][NextRT]_vars

\* ------------------------------------------------------------------ properties

Count(tr, x) == Cardinality({i \in DOMAIN tr : tr[i] = x})

\* Every row of `before` is in `after` under its id with its values, and a
\* column `after` has and `before` lacks is null in it.
KeptRows(before, after) ==
    \A id \in DOMAIN before.rows :
        /\ id \in DOMAIN after.rows
        /\ DOMAIN before.rows[id] \subseteq DOMAIN after.rows[id]
        /\ \A c \in DOMAIN after.rows[id] :
               after.rows[id][c] = Get(before.rows[id], c)

\* The stored rows are the same: none added, none removed, none changed.
SameStoredRows(before, after) ==
    /\ DOMAIN after.rows = DOMAIN before.rows
    /\ KeptRows(before, after)

InsertingImport == outcome.cmd = "import" /\ "BEGIN" \in Range(trace)

\* C1: an import that has passed its checks and begun inserting either commits
\* every brew of the document, or, when one insert fails at whatever position,
\* is rolled back and leaves the stored rows as they were before the import.
C1_ImportAllOrNothing ==
    InsertingImport =>
        \/ /\ outcome.exit = 0
           /\ "commit" \in Range(trace)
           /\ Count(trace, "insert_brew_dict") = input.brews
           /\ Cardinality(DOMAIN disk.rows) = Cardinality(DOMAIN pre.rows) + input.brews
           /\ KeptRows(pre, disk)
        \/ /\ outcome.exit = 1
           /\ "insert_brew_dict raised" \in Range(trace)
           /\ "rollback" \in Range(trace)
           /\ SameStoredRows(pre, disk)

\* An import whose second insert failed, into a store that had rows.
C1_Witness ==
    /\ InsertingImport
    /\ outcome.exit = 1
    /\ Count(trace, "insert_brew_dict") >= 1
    /\ DOMAIN pre.rows # {}

\* C2: an import of a file with any defect (a '..' in the path, a missing,
\* empty or oversize file, an unrecognised extension, a parse failure, content
\* that is not a mapping, a version mismatch, a schema violation) exits 1,
\* inserts nothing and leaves the database file as it was.
C2_FailedCheckWritesNothing ==
    (outcome.cmd = "import" /\ input.defect # "none") =>
        /\ outcome.exit = 1
        /\ Count(trace, "insert_brew_dict") = 0
        /\ disk = pre

\* An import rejected by schema validation, the store holding rows.
C2_Witness ==
    /\ outcome.cmd = "import"
    /\ input.defect = "schema"
    /\ "validate_document" \in Range(trace)
    /\ DOMAIN pre.rows # {}

\* C3: a parsed document whose version tag is a string other than "0.4" is
\* rejected at the version check, before schema validation runs, whether or not
\* the rest of it is schema-valid; nothing is written.
C3_VersionGateFirst ==
    (outcome.cmd = "import" /\ input.vtype = "str" /\ input.vtext # "0.4") =>
        /\ outcome.exit = 1
        /\ outcome.msg = "Error: This file uses BrewSpec v{version}, which is not supported"
        /\ "version check" \in Range(trace)
        /\ "validate_document" \notin Range(trace)
        /\ disk = pre

\* A "0.3" document, otherwise schema-valid, was imported.
C3_Witness ==
    /\ outcome.cmd = "import"
    /\ input.vtype = "str"
    /\ input.vtext = "0.3"
    /\ input.rest_valid
    /\ outcome.version = "0.3"

SUB_OBJECTS == {"coffee", "water", "equipment", "result"}

\* The sub-objects of a brew that are present and have no field.
EmptySubObjects(b) == {k \in DOMAIN b \cap SUB_OBJECTS : DOMAIN b[k][1] = {}}

\* The brew without its empty sub-objects.
DropEmpty(b) == Restrict(b, DOMAIN b \ EmptySubObjects(b))

SchemaValidBrew(b) == Len(BrewErrors(b)) = 0

\* C4 as stated: a schema-valid brew, stored with insert_brew_dict and read
\* back with row_to_brew_dict, comes back equal, every sub-object present
\* exactly when it was present.
C4_RoundTripAsStated ==
    (~IsNone(out) /\ SchemaValidBrew(input)) => out[1] = input

\* C4: a schema-valid brew in which every sub-object that is present has at
\* least one field comes back equal from insert_brew_dict and row_to_brew_dict,
\* every sub-object present exactly when it was; a schema-valid brew with an
\* empty equipment or result comes back without that sub-object and otherwise equal.
C4_RoundTrip ==
    (~IsNone(out) /\ SchemaValidBrew(input)) =>
        /\ (EmptySubObjects(input) = {} => out[1] = input)
        /\ out[1] = DropEmpty(input)

\* A brew with a two-item origin, ratings and no empty sub-object made the round trip.
C4_Witness ==
    /\ ~IsNone(out)
    /\ SchemaValidBrew(input)
    /\ EmptySubObjects(input) = {}
    /\ Has(input, "coffee") /\ Has(V(input, "coffee"), "origin")
    /\ Len(V(V(input, "coffee"), "origin")) = 2
    /\ Has(input, "result") /\ Has(V(input, "result"), "ratings")
    /\ Has(input, "water")

NoNull(d) == \A k \in DOMAIN d : ~IsNone(d[k])

\* No null value at any level, and no empty sub-object.
NoNullNoEmpty(b) ==
    /\ NoNull(b)
    /\ \A k \in DOMAIN b \cap SUB_OBJECTS :
           /\ DOMAIN V(b, k) # {}
           /\ NoNull(V(b, k))
           /\ Has(V(b, k), "ratings") =>
                  (DOMAIN V(V(b, k), "ratings") # {} /\ NoNull(V(V(b, k), "ratings")))

SUB_OBJECT_COLUMNS ==
    [ coffee |-> {"coffee_roast_date", "coffee_type", "coffee_origin", "coffee_varietal",
                  "coffee_process"},
      water |-> {"water_ppm"},
      equipment |-> {"equipment_grinder", "equipment_brewer"},
      result |-> {"result_tds", "result_ey", "result_brix", "result_tasting_notes"}
                   \cup {RATING_DIMS[i][1] : i \in DOMAIN RATING_DIMS} ]

\* C5: for every stored row, the brew row_to_brew_dict makes of it has no null
\* value at any level and no empty sub-object, and has a sub-object only if one
\* of the sub-object's columns is non-null in the row.
C5_NoNullNoEmpty ==
    \A id \in DOMAIN disk.rows :
        LET b == row_to_brew_dict(disk.rows[id])
        IN /\ NoNullNoEmpty(b)
           /\ \A k \in DOMAIN b \cap SUB_OBJECTS :
                  \E c \in SUB_OBJECT_COLUMNS[k] : ~IsNone(Get(disk.rows[id], c))

\* A stored row with a rating, and with every water and equipment column null.
C5_Witness ==
    /\ ~IsNone(out)
    /\ \E id \in DOMAIN disk.rows :
           /\ ~IsNone(disk.rows[id]["result_rating_overall"])
           /\ IsNone(disk.rows[id]["result_tds"])
           /\ IsNone(disk.rows[id]["water_ppm"])
           /\ IsNone(disk.rows[id]["equipment_grinder"])
           /\ IsNone(disk.rows[id]["equipment_brewer"])

\* The rows with a stored grind outside the enum.
InvalidGrindRows(d) ==
    {id \in DOMAIN d.rows :
         ~IsNone(Get(d.rows[id], "grind")) /\ d.rows[id]["grind"][1] \notin GRIND_ENUM}

\* C6 as stated: an export of a store with a row whose grind is outside the
\* enum, to a path that is in order and may be written, completes: the file is
\* written and a warning names the row's id and its stored grind.
C6_ExportOmitsInvalidGrind ==
    (/\ outcome.cmd = "export"
     /\ input.path_ok
     /\ input.permitted
     /\ InvalidGrindRows(pre) # {}) =>
        /\ outcome.exit = 0
        /\ ~IsNone(outfile)
        /\ \A id \in InvalidGrindRows(pre) :
               <<id, pre.rows[id]["grind"][1]>> \in Range(outcome.warned)

\* update_brew's columns that the allow-list leaves out.
OutsideAllowList(columns) ==
    columns \cap {"id", "date", "type", "dose_g", "water_weight_g", "evil_col"}

\* C7: update_brew, given a mapping with any column outside the allow-list
\* (id, date, type, dose_g, water_weight_g, an unknown name), fails before it
\* executes any SQL and leaves every row unchanged.
C7_UpdateRejectsOutsideAllowList ==
    (outcome.cmd = "update_brew" /\ OutsideAllowList(input.columns) # {}) =>
        /\ outcome.exit = 1
        /\ outcome.msg = "AssertionError"
        /\ "UPDATE" \notin Range(trace)
        /\ SameStoredRows(pre, disk)

\* update_brew was given an allow-listed column together with `date`, for a row that exists.
C7_Witness ==
    /\ outcome.cmd = "update_brew"
    /\ input.columns = {"notes", "date"}
    /\ input.brew_id \in DOMAIN pre.rows
    /\ outcome.msg = "AssertionError"

NoDuplicates(seq) == Cardinality(Range(seq)) = Len(seq)

\* C8: get_connection on a database file it has run on before raises no error
\* and leaves the table with the same columns, none duplicated, and the same rows.
C8_OpenTwice ==
    (outcome.cmd = "open" /\ opens >= 2) =>
        /\ outcome.exit = 0
        /\ disk = pre
        /\ NoDuplicates(disk.columns)

\* The store, holding rows, was opened a second time.
C8_Witness ==
    /\ outcome.cmd = "open"
    /\ opens >= 2
    /\ outcome.exit = 0
    /\ DOMAIN disk.rows # {}

\* C9 as stated: after get_connection the table has every column of the
\* current column set, every column the inserts write.
C9_AllColumnsAfterOpen ==
    (outcome.cmd = "open" /\ outcome.exit = 0) => INSERT_COLUMNS \subseteq Range(disk.columns)

\* C9: after get_connection on a table made by an older version the table has
\* its old columns and the eight result_rating_* columns, each missing one of
\* these added as nullable; no other column is added, and an insert succeeds
\* exactly when the table has all the other columns the INSERT names.
C9_RatingColumnsAfterOpen ==
    /\ (outcome.cmd = "open" /\ pre.exists) =>
           /\ outcome.exit = 0
           /\ Range(disk.columns) = Range(pre.columns) \cup Range(V3_MIGRATION_COLUMNS)
           /\ \A id \in DOMAIN disk.rows :
                  \A c \in Range(disk.columns) \ Range(pre.columns) : IsNone(disk.rows[id][c])
    /\ (InsertingImport /\ input.faultAt = 0) =>
           (outcome.exit = 0 <=> INSERT_COLUMNS \subseteq Range(disk.columns))

\* The store was opened on an older table that has rows and lacks `method`
\* as well as the rating columns.
C9_Witness ==
    /\ outcome.cmd = "open"
    /\ pre.exists
    /\ "method" \notin Range(pre.columns)
    /\ "result_rating_overall" \notin Range(pre.columns)
    /\ "result_rating_overall" \in Range(disk.columns)
    /\ DOMAIN pre.rows # {}

\* C10: get_connection on a table that has rows keeps every row, under its id
\* and with its value in every column it had, and sets every added column null in it.
C10_MigrationKeepsRows ==
    outcome.cmd = "open" =>
        /\ SameStoredRows(pre, disk)
        /\ disk.seq = pre.seq

\* The v0.2 store, with its row and without the rating columns, was opened.
C10_Witness ==
    /\ outcome.cmd = "open"
    /\ DOMAIN pre.rows # {}
    /\ \E id \in DOMAIN pre.rows : Get(pre.rows[id], "grind") = Some("medium-fine")
    /\ Len(disk.columns) = Len(pre.columns) + Len(V3_MIGRATION_COLUMNS)

\* C11: every id a step gives to a new row is greater than every id a row of
\* the store ever had, so the id of a deleted row (the highest one included)
\* is never given again; a deletion leaves every remaining row under its id,
\* with its values.
C11_IdsNeverReused ==
    [][ /\ \A id \in DOMAIN disk'.rows \ DOMAIN disk.rows : \A a \in assigned : id > a
        /\ outcome'.cmd = "insert_brew" /\ outcome'.exit = 0 =>
               /\ outcome'.id \in DOMAIN disk'.rows \ DOMAIN disk.rows
               /\ disk'.rows[outcome'.id]["id"] = Some(outcome'.id)
        /\ outcome'.cmd = "delete" =>
               /\ DOMAIN disk'.rows \subseteq DOMAIN disk.rows
               /\ DOMAIN disk.rows \ DOMAIN disk'.rows \subseteq {input'.brew_id}
               /\ \A id \in DOMAIN disk'.rows : \A c \in DOMAIN disk'.rows[id] :
                      disk'.rows[id][c] = Get(disk.rows[id], c) ]_vars

\* insert_brew returned an id after the row with the highest id was deleted.
C11_Witness ==
    /\ outcome.cmd = "insert_brew"
    /\ outcome.exit = 0
    /\ outcome.id - 1 \in assigned
    /\ outcome.id - 1 \notin DOMAIN disk.rows
    /\ \A i \in DOMAIN disk.rows : i <= outcome.id

\* Two rows that differ in their id at most.
SameBrew(r1, r2) ==
    /\ DOMAIN r1 = DOMAIN r2
    /\ \A c \in DOMAIN r1 \ {"id"} : r1[c] = r2[c]

\* C12: an import that succeeds adds exactly as many rows as the document has
\* brews, whatever rows the store holds already (a brew the store holds is
\* stored again), and reports that number.
C12_ImportAddsEveryBrew ==
    outcome.cmd = "import" /\ outcome.exit = 0 =>
        /\ outcome.msg = "Imported brews."
        /\ outcome.count = input.brews
        /\ Cardinality(DOMAIN disk.rows \ DOMAIN pre.rows) = input.brews
        /\ DOMAIN pre.rows \subseteq DOMAIN disk.rows

\* The second import of a file: every row it added repeats a row the store held.
C12_Witness ==
    /\ outcome.cmd = "import" /\ outcome.exit = 0
    /\ input.brews >= 1
    /\ Cardinality(DOMAIN disk.rows) = 2 * Cardinality(DOMAIN pre.rows)
    /\ \A id \in DOMAIN disk.rows \ DOMAIN pre.rows :
           \E old \in DOMAIN pre.rows : SameBrew(disk.rows[id], pre.rows[old])

OnlyAfter(tr, b, a) ==
    \A j \in DOMAIN tr : tr[j] = b => \E i \in 1..(j - 1) : tr[i] = a

\* C14 as stated: an export to a path that is in order, where a file is that
\* the user does not let it overwrite, from a store with rows, asks for the
\* confirmation, and asks only after the document is built and has passed validate_document;
\* an export whose built document fails validate_document reports that failure
\* and has not asked.
C14_ConfirmAfterRevalidation ==
    (/\ outcome.cmd = "export"
     /\ input.path_ok
     /\ input.fmt \in {"yaml", "json"}
     /\ DOMAIN pre.rows # {}) =>
        /\ OnlyAfter(trace, "confirm", "validate_document")
        /\ (input.revalidated /\ ~input.permitted) => "confirm" \in Range(trace)
        /\ ~input.revalidated =>
               /\ outcome.msg = "Internal error: serialised document failed schema validation."
               /\ "confirm" \notin Range(trace)

\* C15: an import of a path with a '..' part, of a path where no file is, or
\* of a file of more than 10 MiB exits 1 with the error of that check, and has
\* neither read the file's content nor opened the store; a file of exactly
\* 10 MiB is not turned away for its size.
C15_PathChecksBeforeReadAndOpen ==
    outcome.cmd = "import" =>
        /\ input.defect \in {"traversal", "missing", "oversize"} =>
               /\ outcome.exit = 1
               /\ outcome.msg = (CASE input.defect = "traversal" ->
                                         "path must not contain '..' components"
                                   [] input.defect = "missing" -> "file does not exist"
                                   [] input.defect = "oversize" -> "file exceeds 10MB limit")
               /\ {"read_text", "parse", "get_connection"} \cap Range(trace) = {}
               /\ disk = pre
        /\ input.size = 10 * 1024 * 1024 /\ input.defect = "none" =>
               /\ outcome.msg # "file exceeds 10MB limit"
               /\ "read_text" \in Range(trace)

\* An import of a file one byte over 10 MiB, turned away.
C15_Witness ==
    /\ outcome.cmd = "import"
    /\ input.defect = "oversize"
    /\ input.size = 10 * 1024 * 1024 + 1
    /\ outcome.exit = 1

\* C16 as stated: an import of a parsed document whose version tag is not the
\* string "0.4" (another string, a number, null, or no tag at all) ends with the
\* version rejection, which names the tag's text when it has one, and never
\* with the report of validate_document.
C16_EveryOtherVersionRejectedAtGate ==
    (/\ outcome.cmd = "import"
     /\ input.vtype \in {"str", "float", "none", "absent"}
     /\ ~(input.vtype = "str" /\ input.vtext = "0.4")) =>
        /\ outcome.exit = 1
        /\ outcome.msg = "Error: This file uses BrewSpec v{version}, which is not supported"
        /\ input.vtext # "" => outcome.version = input.vtext
        /\ outcome.msg # "Validation failed:"
        /\ "validate_document" \notin Range(trace)

\* The columns of the optional scalars, of the sub-fields of coffee, water,
\* equipment and result, and of identity, timestamp and required fields.
OPTIONAL_SCALAR_COLUMNS ==
    {"method", "water_volume_ml", "water_temp_c", "grind", "duration_s", "notes"}
SUB_FIELD_COLUMNS ==
    { "coffee_roast_date", "coffee_type", "coffee_origin", "coffee_varietal",
      "coffee_process", "water_ppm", "equipment_grinder", "equipment_brewer",
      "result_tds", "result_ey", "result_brix", "result_tasting_notes" }
    \cup Range(V3_MIGRATION_COLUMNS)
IMMUTABLE_COLUMNS == {"id", "date", "type", "dose_g", "water_weight_g"}

\* C17 as stated: update_brew lets through every mapping whose columns are
\* optional scalars (water_volume_ml among them) or sub-field columns.
C17_AllowListAsStated ==
    (/\ outcome.cmd = "update_brew"
     /\ input.columns # {}
     /\ input.columns \subseteq OPTIONAL_SCALAR_COLUMNS \cup SUB_FIELD_COLUMNS) =>
        outcome.msg # "AssertionError"

\* C17: the allow-list is the optional scalars other than water_volume_ml
\* (method, water_temp_c, grind, duration_s, notes) and every sub-field column
\* of coffee, water, equipment and result with the eight rating columns; it has
\* none of id, date, type, dose_g, water_weight_g, and not water_volume_ml
\* either.  update_brew lets a mapping through exactly when its columns are
\* all among these.
C17_AllowList ==
    /\ UPDATABLE_COLUMNS =
           (OPTIONAL_SCALAR_COLUMNS \ {"water_volume_ml"}) \cup SUB_FIELD_COLUMNS
    /\ UPDATABLE_COLUMNS \cap (IMMUTABLE_COLUMNS \cup {"water_volume_ml"}) = {}
    /\ outcome.cmd = "update_brew" =>
           (outcome.msg = "AssertionError" <=>
               ~(input.columns \subseteq
                    (OPTIONAL_SCALAR_COLUMNS \ {"water_volume_ml"}) \cup SUB_FIELD_COLUMNS))

\* update_brew was given water_volume_ml for a row that exists, and refused it.
C17_Witness ==
    /\ outcome.cmd = "update_brew"
    /\ input.columns = {"water_volume_ml"}
    /\ input.brew_id \in DOMAIN pre.rows
    /\ outcome.msg = "AssertionError"

\* update_brew was given allow-listed columns.
AllowListedUpdate ==
    /\ outcome.cmd = "update_brew"
    /\ input.columns \subseteq OPTIONAL_SCALAR_COLUMNS \cup SUB_FIELD_COLUMNS
    /\ "water_volume_ml" \notin input.columns

\* The named columns of the row with the id have the given values; every other
\* column of it and every other row are as before the call.
OnlyNamedColumnsChanged ==
    /\ DOMAIN disk.rows = DOMAIN pre.rows
    /\ \A id \in DOMAIN disk.rows : \A c \in DOMAIN disk.rows[id] :
           IF id = input.brew_id /\ c \in input.columns
           THEN disk.rows[id][c] = input.updates[c]
           ELSE disk.rows[id][c] = Get(pre.rows[id], c)

\* C18 as stated: update_brew, given allow-listed columns, sets those columns
\* of the row with the given id and returns true; every other column of that
\* row and every other row stay as they were; when no row has the id it
\* returns false, raises nothing and changes no row.
C18_UpdateAsStated ==
    AllowListedUpdate =>
        /\ outcome.exit = 0
        /\ outcome.found = (input.brew_id \in DOMAIN pre.rows)
        /\ OnlyNamedColumnsChanged

\* C18: the same, for allow-listed columns that the table has.  When the table
\* lacks one of them (a table of an earlier version, to which opening adds the
\* rating columns only) the UPDATE is refused by the engine: update_brew
\* raises, whether or not a row has the id, and no row is changed.
C18_UpdateChangesOnlyNamedColumns ==
    AllowListedUpdate =>
        IF input.columns \subseteq Range(disk.columns)
        THEN /\ outcome.exit = 0
             /\ outcome.found = (input.brew_id \in DOMAIN pre.rows)
             /\ OnlyNamedColumnsChanged
        ELSE /\ outcome.exit = 1
             /\ outcome.msg = "OperationalError"
             /\ \A id \in DOMAIN disk.rows : \A c \in DOMAIN disk.rows[id] :
                    disk.rows[id][c] = Get(pre.rows[id], c)
             /\ DOMAIN disk.rows = DOMAIN pre.rows

\* update_brew changed the notes and the overall rating of one of two rows.
C18_Witness ==
    /\ outcome.cmd = "update_brew"
    /\ outcome.found
    /\ input.columns = {"notes", "result_rating_overall"}
    /\ Cardinality(DOMAIN disk.rows) = 2
    /\ disk.rows[input.brew_id]["notes"] = Some("test")
    /\ \E id \in DOMAIN disk.rows : disk.rows[id]["notes"] # Some("test")

\* The first ten characters of the stored timestamps: the day.
FirstTen(s) ==
    IF s = "2026-02-19T08:30:00Z" THEN "2026-02-19"
    ELSE IF s = "2026-02-21T09:00:00Z" THEN "2026-02-21"
    ELSE s

\* The row satisfies every filter the query was given.
Satisfies(row, q) ==
    /\ ~IsNone(q.brew_type) => row["type"] = q.brew_type
    /\ ~IsNone(q.since) => DateRank(FirstTen(row["date"][1])) >= DateRank(q.since[1])
    /\ ~IsNone(q.until) => DateRank(FirstTen(row["date"][1])) <= DateRank(q.until[1])
    /\ ~IsNone(q.rating_min) =>
           /\ ~IsNone(row["result_rating_overall"])
           /\ row["result_rating_overall"][1] >= q.rating_min[1]
    /\ ~IsNone(q.rating_max) =>
           /\ ~IsNone(row["result_rating_overall"])
           /\ row["result_rating_overall"][1] <= q.rating_max[1]

\* The stored rows that satisfy the query's filters.
SatisfyingIds(d, q) == {id \in DOMAIN d.rows : Satisfies(d.rows[id], q)}

\* The ids of the returned rows.
ReturnedIds == {outcome.rows[i]["id"][1] : i \in DOMAIN outcome.rows}

\* C19: list_brews_filtered returns stored rows only, each once, and each
\* satisfying all the filters given (type; day of the timestamp from `since`
\* to `until`, both days included, for bare dates and date-times alike;
\* overall rating from rating_min to rating_max, both included, a null rating
\* satisfying no rating bound); without a cap, or with a cap the satisfying
\* rows do not exceed, it returns every such row.
C19_FilteredListIsExact ==
    outcome.cmd = "list_brews_filtered" =>
        /\ \A i \in DOMAIN outcome.rows :
               /\ outcome.rows[i]["id"][1] \in DOMAIN disk.rows
               /\ outcome.rows[i] = disk.rows[outcome.rows[i]["id"][1]]
        /\ Cardinality(ReturnedIds) = Len(outcome.rows)
        /\ ReturnedIds \subseteq SatisfyingIds(disk, input.query)
        /\ (input.query.all_rows
              \/ Cardinality(SatisfyingIds(disk, input.query)) <= input.query.limit)
               => ReturnedIds = SatisfyingIds(disk, input.query)

\* A query for one day returned the row with a date-time of that day and left
\* out a stored row.
C19_Witness ==
    /\ outcome.cmd = "list_brews_filtered"
    /\ input.query.since = Some("2026-02-19") /\ input.query.until = Some("2026-02-19")
    /\ IsNone(input.query.rating_min) /\ IsNone(input.query.rating_max)
    /\ \E i \in DOMAIN outcome.rows : outcome.rows[i]["date"] = Some("2026-02-19T08:30:00Z")
    /\ \E id \in DOMAIN disk.rows : id \notin ReturnedIds

ListQuery == outcome.cmd \in {"list_brews", "list_brews_filtered"}

\* The rank of a returned or stored row's timestamp in the order of the text.
RowRank(row) == DateRank(row["date"][1])

\* C20: a list query, filtered or not, returns its rows latest timestamp first;
\* without a cap it returns every row that satisfies the filters, and with a
\* cap L the first L of them: as many rows as satisfy the filters, up to L,
\* and a satisfying row is left out only when L returned rows, all satisfying,
\* have timestamps not earlier than its own.
C20_ListOrderedAndCappedAfterFilter ==
    ListQuery =>
        LET q == input.query
            sat == SatisfyingIds(disk, q)
        IN /\ \A i, j \in DOMAIN outcome.rows :
                  i < j => RowRank(outcome.rows[i]) >= RowRank(outcome.rows[j])
           /\ ReturnedIds \subseteq sat
           /\ Cardinality(ReturnedIds) = Len(outcome.rows)
           /\ Len(outcome.rows) =
                  IF q.all_rows \/ Cardinality(sat) <= q.limit
                  THEN Cardinality(sat) ELSE q.limit
           /\ \A id \in sat \ ReturnedIds :
                  /\ Len(outcome.rows) = q.limit
                  /\ \A i \in DOMAIN outcome.rows :
                         RowRank(outcome.rows[i]) >= RowRank(disk.rows[id])

\* A query for one type with the cap 1 returned the row of that type, though a
\* row of another type has a later timestamp.
C20_Witness ==
    /\ outcome.cmd = "list_brews_filtered"
    /\ ~input.query.all_rows /\ input.query.limit = 1
    /\ ~IsNone(input.query.brew_type)
    /\ Len(outcome.rows) = 1
    /\ \E id \in DOMAIN disk.rows :
           /\ ~Satisfies(disk.rows[id], input.query)
           /\ RowRank(disk.rows[id]) > RowRank(outcome.rows[1])

\* C21 as stated: an export to a path whose extension is one of the format's
\* (.csv for csv; .yaml, .yml, .json for YAML and JSON), with no '..' part and
\* in a directory that exists, goes on to open the store; an export to any
\* other path exits 1 with the store not opened and the file as it was.
C21_ExportPathByFormat ==
    [][ outcome'.cmd = "export" =>
            IF input'.path_ok
            THEN /\ "validate_export_path" \in Range(trace')
                 /\ "get_connection" \in Range(trace')
            ELSE /\ outcome'.exit = 1
                 /\ "get_connection" \notin Range(trace')
                 /\ outfile' = outfile ]_vars

WritingCommand == outcome.cmd \in {"import", "insert_brew", "update_brew"}

\* C22: an insert (insert_brew, or insert_brew_dict in an import) and an
\* update_brew leave the result_ratings column of every row that was stored as
\* it was, and the rows an insert creates have it null: their ratings are in
\* the eight rating columns.
C22_BlobColumnNeverWritten ==
    WritingCommand =>
        \A id \in DOMAIN disk.rows :
            "result_ratings" \in DOMAIN disk.rows[id] =>
                IF id \in DOMAIN pre.rows
                THEN disk.rows[id]["result_ratings"] = Get(pre.rows[id], "result_ratings")
                ELSE IsNone(disk.rows[id]["result_ratings"])

\* A brew with ratings was inserted into a store whose earlier row has the
\* blob: the new row has the overall rating in its column and no blob, the
\* earlier row has its blob still.
C22_Witness ==
    /\ outcome.cmd \in {"import", "insert_brew"}
    /\ outcome.exit = 0
    /\ \E id \in DOMAIN disk.rows \ DOMAIN pre.rows :
           /\ disk.rows[id]["result_rating_overall"] = Some(4)
           /\ IsNone(disk.rows[id]["result_ratings"])
    /\ \E id \in DOMAIN pre.rows : disk.rows[id]["result_ratings"] = Some("{overall: 4}")

\* ------------------------------------------------------------------ models.py: the timestamp of a brew

\* A text is the sequence of its characters.
NEWLINE == "\n"
DIGITS == {"0", "1", "2", "3", "4", "5", "6", "7", "8", "9"}

DigitValue(c) ==
    CASE c = "0" -> 0 [] c = "1" -> 1 [] c = "2" -> 2 [] c = "3" -> 3 [] c = "4" -> 4
      [] c = "5" -> 5 [] c = "6" -> 6 [] c = "7" -> 7 [] c = "8" -> 8 [] c = "9" -> 9

\* The number written by the digits cs[from..to].
RECURSIVE Number(_, _, _)
Number(cs, from, to) ==
    IF to < from THEN 0 ELSE 10 * Number(cs, from, to - 1) + DigitValue(cs[to])

\* \d at every place of cs[from..to].
IsDigits(cs, from, to) == \A i \in from..to : cs[i] \in DIGITS

\* ^\d{4}-\d{2}-\d{2}
DateHead(cs) ==
    /\ Len(cs) >= 10
    /\ IsDigits(cs, 1, 4) /\ cs[5] = "-"
    /\ IsDigits(cs, 6, 7) /\ cs[8] = "-"
    /\ IsDigits(cs, 9, 10)

\* T\d{2}:\d{2}:\d{2}Z after the date
TimeTail(cs) ==
    /\ Len(cs) >= 20
    /\ cs[11] = "T"
    /\ IsDigits(cs, 12, 13) /\ cs[14] = ":"
    /\ IsDigits(cs, 15, 16) /\ cs[17] = ":"
    /\ IsDigits(cs, 18, 19) /\ cs[20] = "Z"

\* "$" of Python's re after n characters: the end of the text, or the place
\* just before a newline that ends the text.
AtDollar(cs, n) == Len(cs) = n \/ (Len(cs) = n + 1 /\ cs[n + 1] = NEWLINE)

\* DATE_PATTERN.match(v)
DATE_PATTERN_match(cs) ==
    \/ DateHead(cs) /\ TimeTail(cs) /\ AtDollar(cs, 20)
    \/ DateHead(cs) /\ AtDollar(cs, 10)

\* ROAST_DATE_PATTERN.match(v)
ROAST_DATE_PATTERN_match(cs) == DateHead(cs) /\ AtDollar(cs, 10)

IsLeap(y) == (y % 4 = 0 /\ y % 100 # 0) \/ y % 400 = 0

DaysIn(y, mo) ==
    IF mo = 2 THEN (IF IsLeap(y) THEN 29 ELSE 28)
    ELSE IF mo \in {4, 6, 9, 11} THEN 30 ELSE 31

\* datetime.strptime(v, "%Y-%m-%dT%H:%M:%SZ") returns a datetime and does not
\* raise ValueError: the format takes the whole text (what remains after "Z"
\* is "unconverted data"), each directive takes its digits (%m 01..12,
\* %d 01..31, %H 00..23, %M 00..59, %S 00..61), and the datetime constructor
\* takes the numbers (year 1.., the day within its month, second 0..59).
strptime_ok(cs) ==
    /\ Len(cs) = 20
    /\ DateHead(cs) /\ TimeTail(cs)
    /\ LET y == Number(cs, 1, 4)    mo == Number(cs, 6, 7)    d == Number(cs, 9, 10)
           h == Number(cs, 12, 13)  mi == Number(cs, 15, 16)  s == Number(cs, 18, 19)
       IN /\ mo \in 1..12 /\ d \in 1..31 /\ h \in 0..23 /\ mi \in 0..59 /\ s \in 0..61
          /\ y >= 1 /\ d <= DaysIn(y, mo) /\ s <= 59

\* BrewInput.validate_date: "" when the value is taken, the message otherwise.
validate_date(cs) ==
    IF ~DATE_PATTERN_match(cs)
    THEN "date must be YYYY-MM-DD or YYYY-MM-DDTHH:MM:SSZ"
    ELSE IF "T" \in Range(cs) /\ ~strptime_ok(cs)
    THEN "date is not a valid datetime"
    ELSE OK

\* ------------------------------------------------------------------ timestamps given to the record model

Chars2(a, b) == <<a, b>>
YEARS == { <<"2", "0", "2", "4">>, <<"2", "0", "2", "6">> }
MONTHS == { Chars2("0", "0"), Chars2("0", "2"), Chars2("1", "2"), Chars2("1", "3") }
DAYS == { Chars2("0", "1"), Chars2("2", "9"), Chars2("3", "0"), Chars2("3", "1") }
TIME_0830 == <<"T", "0", "8", ":", "3", "0", ":", "0", "0">>
TAILS ==
    { <<>>, <<NEWLINE>>, <<" ">>,
      TIME_0830 \o <<"Z">>,
      TIME_0830 \o <<"Z", NEWLINE>>,
      TIME_0830,
      TIME_0830 \o <<"+", "0", "1", ":", "0", "0">>,
      <<"T", "2", "5", ":", "0", "0", ":", "0", "0", "Z">>,
      <<"T", "2", "3", ":", "5", "9", ":", "6", "0", "Z">>,
      <<" ", "0", "8", ":", "3", "0", ":", "0", "0", "Z">> }
DATE_TEXTS ==
    { y \o <<"-">> \o mo \o <<"-">> \o d \o t :
          y \in YEARS, mo \in MONTHS, d \in DAYS, t \in TAILS }
    \cup { <<>>, <<"F", "e", "b", " ", "2", "0">> }

InitDate ==
    /\ input \in [date : DATE_TEXTS]
    /\ out = Null
    /\ disk = NoTable
    /\ outfile = Null
    /\ pre = disk
    /\ outcome = NoOutcome
    /\ trace = <<>>
    /\ opens = 0
    /\ assigned = {}

\* BrewInput(date=v, ...) with every other field valid: the validator runs.
ValidateDate ==
    /\ IsNone(out)
    /\ out' = Some([date |-> input.date, error |-> validate_date(input.date)])
    /\ UNCHANGED <<disk, outfile, pre, outcome, trace, opens, input, assigned>>

NextDate == ValidateDate

SpecDate == InitDate /\ [][NextDate]_vars

\* ------------------------------------------------------------------ models.py: the record model

BREW_TYPE_ENUM == {"immersion", "pour_over", "espresso", "hybrid"}
COFFEE_TYPE_ENUM == {"single_origin", "blend"}

\* The characters of the texts that are given as dates.
Chars(s) ==
    CASE s = "2026-02-21" -> <<"2", "0", "2", "6", "-", "0", "2", "-", "2", "1">>
      [] s = "2026-02-21\n" ->
             <<"2", "0", "2", "6", "-", "0", "2", "-", "2", "1", NEWLINE>>
      [] s = "2026-13-01" -> <<"2", "0", "2", "6", "-", "1", "3", "-", "0", "1">>
      [] s = "2026-01-01" -> <<"2", "0", "2", "6", "-", "0", "1", "-", "0", "1">>
      [] s = "2026-01-20" -> <<"2", "0", "2", "6", "-", "0", "1", "-", "2", "0">>
      [] s = "2026-02-21T09:00:00Z" ->
             <<"2", "0", "2", "6", "-", "0", "2", "-", "2", "1",
               "T", "0", "9", ":", "0", "0", ":", "0", "0", "Z">>
      [] s = "2026-02-19T08:30:00Z" ->
             <<"2", "0", "2", "6", "-", "0", "2", "-", "1", "9">> \o TIME_0830 \o <<"Z">>
      [] s = "2026-02-30T08:30:00Z" ->
             <<"2", "0", "2", "6", "-", "0", "2", "-", "3", "0">> \o TIME_0830 \o <<"Z">>
      [] s = "February 20" ->
             <<"F", "e", "b", "r", "u", "a", "r", "y", " ", "2", "0">>

\* The texts of the model that are white space and nothing else; every other
\* text has no white space at its ends and fewer than 100 characters.
WHITESPACE_TEXTS == {"", "   "}

\* v.strip()
Strip(s) == IF s \in WHITESPACE_TEXTS THEN "" ELSE s

\* bool(v) of a text argument: None and "" are false.
Truthy(v) == ~IsNone(v) /\ v[1] # ""

\* `if v is not None: if len(v.strip()) == 0: raise ValueError(...)`, the body of
\* validate_min_length_1, validate_equipment_strings, validate_tasting_notes,
\* validate_short_text and validate_notes.
validate_text(v) ==
    IF ~IsNone(v) /\ Strip(v[1]) = "" THEN "value must not be empty" ELSE OK

\* The first message of a sequence of validators' results; "" when none failed.
RECURSIVE FirstError(_)
FirstError(msgs) ==
    IF Len(msgs) = 0 THEN OK
    ELSE IF Head(msgs) # OK THEN Head(msgs) ELSE FirstError(Tail(msgs))

\* CoffeeInput(...): roast_date, type, origin, varietal, process.
CoffeeInput(c) ==
    FirstError(<<
        IF ~IsNone(c.roast_date) /\ ~ROAST_DATE_PATTERN_match(Chars(c.roast_date[1]))
        THEN "roast_date must match YYYY-MM-DD" ELSE OK,
        IF ~IsNone(c.type) /\ c.type[1] \notin COFFEE_TYPE_ENUM
        THEN "coffee type must be one of" ELSE OK,
        IF IsNone(c.origin) THEN OK
        ELSE IF Len(c.origin[1]) = 0 THEN "origin must have at least one entry"
        ELSE IF \E i \in DOMAIN c.origin[1] : Strip(c.origin[1][i]) = ""
        THEN "each origin entry must be a non-empty string" ELSE OK,
        validate_text(c.varietal),
        validate_text(c.process) >>)

\* WaterInput(ppm=...)
WaterInput(w) == IF ~IsNone(w.ppm) /\ w.ppm[1] < 0 THEN "water ppm must be >= 0" ELSE OK

\* EquipmentInput(grinder=..., brewer=...)
EquipmentInput(e) == FirstError(<<validate_text(e.grinder), validate_text(e.brewer)>>)

\* RatingsInput(...): every dimension that is given is within 1..5.
RatingsInput(r) ==
    IF \E k \in DOMAIN r : ~IsNone(r[k]) /\ ~(r[k][1] \in 1..5)
    THEN "rating dimension must be between 1 and 5 inclusive" ELSE OK

\* ResultInput(...): tds, ey, brix, tasting_notes; ratings is a validated model.
ResultInput(r) ==
    FirstError(<<
        IF ~IsNone(r.tds) /\ r.tds[1] <= 0 THEN "value must be greater than 0" ELSE OK,
        IF ~IsNone(r.ey) /\ r.ey[1] <= 0 THEN "value must be greater than 0" ELSE OK,
        IF ~IsNone(r.brix) /\ r.brix[1] < 0 THEN "brix must be >= 0" ELSE OK,
        validate_text(r.tasting_notes) >>)

\* BrewInput(...): the validators of its own fields, in the order of the fields;
\* coffee, water, equipment and result are validated models already.
BrewInput(b) ==
    FirstError(<<
        validate_date(Chars(b.date[1])),
        IF b.type[1] \notin BREW_TYPE_ENUM THEN "type must be one of" ELSE OK,
        validate_text(b.method),
        IF b.dose_g[1] <= 0 THEN "value must be greater than 0" ELSE OK,
        IF b.water_weight_g[1] <= 0 THEN "value must be greater than 0" ELSE OK,
        IF ~IsNone(b.water_volume_ml) /\ b.water_volume_ml[1] <= 0
        THEN "value must be greater than 0" ELSE OK,
        IF ~IsNone(b.water_temp_c) /\ ~(b.water_temp_c[1] \in 0..100)
        THEN "water_temp_c must be between 0 and 100 inclusive" ELSE OK,
        IF ~IsNone(b.grind) /\ b.grind[1] \notin GRIND_ENUM
        THEN "grind must be one of" ELSE OK,
        IF ~IsNone(b.duration_s) /\ b.duration_s[1] <= 0
        THEN "duration_s must be greater than 0" ELSE OK,
        validate_text(b.notes) >>)

\* ------------------------------------------------------------------ commands/add.py

RATING_FLAGS ==
    {"overall", "fragrance", "aroma", "flavour", "aftertaste", "acidity", "sweetness",
     "mouthfeel"}

\* `method or None`
OrNone(v) == IF Truthy(v) THEN v ELSE Null

\* brewlog add with --date, --type, --dose and --water given as flags (nothing
\* is prompted for): the retired flag, the date pattern, the rating range, the
\* sub-models, BrewInput, then get_connection, insert_brew, close.  faultAt is
\* the environment's part (see Connect).
add(a, d, faultAt) ==
    LET Fail(msg) == Result(d, 1, msg, "", 0, <<>>)
        has_coffee ==
            \/ Truthy(a.roast_date) \/ Truthy(a.coffee_type) \/ Len(a.origin) > 0
            \/ Truthy(a.varietal) \/ Truthy(a.process)
        coffee ==
            [ roast_date |-> a.roast_date, type |-> a.coffee_type,
              origin |-> IF Len(a.origin) > 0 THEN Some(a.origin) ELSE Null,
              varietal |-> a.varietal, process |-> a.process ]
        water == [ppm |-> a.water_ppm]
        has_equipment == ~IsNone(a.grinder) \/ ~IsNone(a.brewer)
        equipment == [grinder |-> a.grinder, brewer |-> a.brewer]
        has_any_rating == \E k \in RATING_FLAGS : ~IsNone(a.ratings[k])
        has_result ==
            \/ ~IsNone(a.tds) \/ ~IsNone(a.ey) \/ ~IsNone(a.brix)
            \/ ~IsNone(a.tasting_notes) \/ has_any_rating
        result ==
            [ tds |-> a.tds, ey |-> a.ey, brix |-> a.brix,
              tasting_notes |-> a.tasting_notes,
              ratings |-> IF has_any_rating THEN Some(a.ratings) ELSE Null ]
        brew ==
            [ date |-> a.date, type |-> a.brew_type, dose_g |-> a.dose,
              water_weight_g |-> a.water_weight, method |-> OrNone(a.method),
              water_volume_ml |-> Null, water_temp_c |-> a.temp, grind |-> a.grind,
              duration_s |-> a.duration, notes |-> a.notes,
              coffee |-> IF has_coffee THEN Some(coffee) ELSE Null,
              water |-> IF ~IsNone(a.water_ppm) THEN Some(water) ELSE Null,
              equipment |-> IF has_equipment THEN Some(equipment) ELSE Null,
              result |-> IF has_result THEN Some(result) ELSE Null ]
        g == get_connection(d, faultAt)
        r == insert_brew(brew, g.conn)
    IN IF ~IsNone(a.rating_retired)
       THEN Fail("Error: --rating has been replaced by --rating-overall")
       ELSE IF ~DATE_PATTERN_match(Chars(a.date[1]))
       THEN Fail("Error: date must be YYYY-MM-DD or YYYY-MM-DDTHH:MM:SSZ")
       ELSE IF RatingsInput(a.ratings) # OK
       THEN Fail("Error: rating must be an integer between 1 and 5.")
       ELSE IF has_coffee /\ CoffeeInput(coffee) # OK THEN Fail(CoffeeInput(coffee))
       ELSE IF ~IsNone(a.water_ppm) /\ WaterInput(water) # OK THEN Fail(WaterInput(water))
       ELSE IF has_equipment /\ EquipmentInput(equipment) # OK
       THEN Fail(EquipmentInput(equipment))
       ELSE IF has_result /\ ResultInput(result) # OK THEN Fail(ResultInput(result))
       ELSE IF BrewInput(brew) # OK THEN Fail(BrewInput(brew))
       ELSE IF g.err # OK
       THEN Result(Close(g.conn), 1, g.err, "", 0, <<"get_connection">>)
            @@ [id |-> 0]
       ELSE IF r.err # OK
       THEN Result(Close(r.conn), 1, r.err, "", 0,
                   <<"get_connection", "insert_brew", "close">>) @@ [id |-> 0]
       ELSE Result(Close(r.conn), 0, "Brew logged.", "", 1,
                   <<"get_connection", "insert_brew", "close">>) @@ [id |-> r.lastrowid]

\* ------------------------------------------------------------------ what add is given

NO_RATINGS == [k \in RATING_FLAGS |-> Null]

\* add --date 2026-02-21 --type pour_over --dose 18.0 --water 280.0
ADD_MIN ==
    [ rating_retired |-> Null, date |-> Some("2026-02-21"),
      brew_type |-> Some("pour_over"), dose |-> Some(18), water_weight |-> Some(280),
      method |-> Null, temp |-> Null, grind |-> Null, duration |-> Null, notes |-> Null,
      roast_date |-> Null, coffee_type |-> Null, origin |-> <<>>, varietal |-> Null,
      process |-> Null, water_ppm |-> Null, tds |-> Null, ey |-> Null, brix |-> Null,
      tasting_notes |-> Null, ratings |-> NO_RATINGS, grinder |-> Null, brewer |-> Null ]

FREE_TEXT_FLAGS ==
    {"method", "notes", "grinder", "brewer", "varietal", "process", "tasting_notes"}

\* A free-text value with nothing in it: empty, or white space only.
BLANK_TEXTS == {"", "   "}

\* A command line with every free text, two origins and an overall rating.
ADD_FULL ==
    [ ADD_MIN EXCEPT
        !.method = Some("Hario V60"), !.notes = Some("Bloom 45 s"),
        !.grinder = Some("Comandante C40"), !.brewer = Some("V60 02"),
        !.varietal = Some("Heirloom"), !.process = Some("Washed"),
        !.tasting_notes = Some("Citrus"), !.origin = <<"Ethiopia", "Colombia">>,
        !.ratings = [NO_RATINGS EXCEPT !.overall = Some(4)] ]

ADD_DATES ==
    { "2026-02-21\n", "2026-02-19T08:30:00Z", "2026-02-30T08:30:00Z", "February 20" }

ADD_ORIGINS == { <<"">>, <<"Ethiopia", "   ">> }

\* The minimal and the full command line, and the command lines that differ
\* from the minimal one in one flag (a blank free text, the date, the type, the
\* dose, the water, the origins, the overall rating, the retired flag) or in an
\* origin and an empty varietal.
ADD_ARGS ==
    {ADD_MIN, ADD_FULL}
    \cup { [ADD_MIN EXCEPT ![f] = Some(t)] : f \in FREE_TEXT_FLAGS, t \in BLANK_TEXTS }
    \cup { [ADD_MIN EXCEPT !.date = Some(t)] : t \in ADD_DATES }
    \cup { [ADD_MIN EXCEPT !.origin = o] : o \in ADD_ORIGINS }
    \cup { [ADD_MIN EXCEPT !.origin = <<"Ethiopia">>, !.varietal = Some("")],
           [ADD_MIN EXCEPT !.brew_type = Some("drip")],
           [ADD_MIN EXCEPT !.dose = Some(0)],
           [ADD_MIN EXCEPT !.water_weight = Some(0)],
           [ADD_MIN EXCEPT !.ratings = [NO_RATINGS EXCEPT !.overall = Some(6)]],
           [ADD_MIN EXCEPT !.rating_retired = Some(4)] }

\* The free-text values of a command line: the flags that are given, and the
\* origins.
FreeTextsGiven(a) ==
    { a[f][1] : f \in {f \in FREE_TEXT_FLAGS : ~IsNone(a[f])} }
    \cup Range(a.origin)

\* brewlog add ...
Add ==
    /\ Idle
    /\ \E a \in ADD_ARGS, faultAt \in SCHEMA_FAULT..1 :
        LET r == add(a, disk, faultAt)
        IN /\ Cardinality(DOMAIN r.disk.rows) <= MaxRows
           /\ r.disk.seq <= MaxIds
           /\ disk' = r.disk
           /\ pre' = disk
           /\ outcome' = Outcome("add", r)
           /\ trace' = r.trace
           /\ opens' = IF Opened(r.trace) THEN Bump(opens) ELSE opens
           /\ input' = [NoInput EXCEPT !.faultAt = faultAt,
                                       !.blank = \E t \in FreeTextsGiven(a) : Strip(t) = ""]
           /\ assigned' = assigned \cup DOMAIN disk'.rows
           /\ UNCHANGED <<outfile, out>>

\* The commands that write, on a store that does not exist yet.
InitAdd ==
    /\ disk = NoTable
    /\ outfile = Null
    /\ pre = disk
    /\ outcome = NoOutcome
    /\ trace = <<>>
    /\ opens = 0
    /\ assigned = {}
    /\ input = NoInput
    /\ out = Null

NextAdd == Add \/ Import \/ UpdateBrew \/ Delete \/ Exit

SpecAdd == InitAdd /\ [][NextAdd]_vars

\* ------------------------------------------------------------------ db.py: the latest brew

\* The ids of the rows whose date no other row's date follows, as sqlite
\* compares text.
LatestDated(rows) ==
    { i \in DOMAIN rows :
          \A j \in DOMAIN rows :
              DateRank(rows[i]["date"][1]) >= DateRank(rows[j]["date"][1]) }

\* A query for the row of the highest id: ORDER BY id DESC LIMIT 1.
get_latest_brew_id_by_id(conn) ==
    IF DOMAIN conn.work.rows = {} THEN {Null}
    ELSE { Some(i) : i \in { i \in DOMAIN conn.work.rows :
                                 \A j \in DOMAIN conn.work.rows : i >= j } }

\* get_latest_brew_id: SELECT id FROM brews ORDER BY date DESC LIMIT 1.  The
\* results the engine may give: None for an empty table, else the id of a row
\* of the latest date (which one of several is the engine's choice).
get_latest_brew_id(conn) ==
    IF DOMAIN conn.work.rows = {} THEN {Null}
    ELSE { Some(i) : i \in LatestDated(conn.work.rows) }

\* ------------------------------------------------------------------ commands/update.py

\* The flags of update that set one column each, and the column.
FLAG_COLUMN ==
    [ method |-> "method", grind |-> "grind", temp |-> "water_temp_c",
      duration |-> "duration_s", notes |-> "notes", tds |-> "result_tds",
      ey |-> "result_ey", brix |-> "result_brix",
      tasting_notes |-> "result_tasting_notes", roast_date |-> "coffee_roast_date",
      coffee_type |-> "coffee_type", varietal |-> "coffee_varietal",
      process |-> "coffee_process", water_ppm |-> "water_ppm",
      grinder |-> "equipment_grinder", brewer |-> "equipment_brewer" ]

\* The column of --rating-<k>.
RatingColumn(k) ==
    RATING_DIMS[CHOOSE i \in DOMAIN RATING_DIMS : RATING_DIMS[i][2] = k][1]

\* The updates dict: one entry for each flag that is given.
UpdatesOf(u) ==
    LET flags == { f \in DOMAIN FLAG_COLUMN : ~IsNone(u[f]) }
        dims == { k \in RATING_FLAGS : ~IsNone(u.ratings[k]) }
        cols == { FLAG_COLUMN[f] : f \in flags } \cup { RatingColumn(k) : k \in dims }
                \cup (IF Len(u.origin) > 0 THEN {"coffee_origin"} ELSE {})
    IN [ c \in cols |->
           IF c = "coffee_origin" THEN Some(json_dumps(u.origin))
           ELSE IF \E k \in dims : RatingColumn(k) = c
           THEN u.ratings[CHOOSE k \in dims : RatingColumn(k) = c]
           ELSE u[CHOOSE f \in flags : FLAG_COLUMN[f] = c] ]

\* `v is not None and len(v.strip()) == 0`
BlankFlag(v) == ~IsNone(v) /\ Strip(v[1]) = ""

\* The checks of the flags' values, in the command's order: the first message,
\* or "".
UpdateFlagError(u) ==
    FirstError(<<
        IF ~IsNone(u.rating_retired)
        THEN "Error: --rating has been replaced by --rating-overall" ELSE OK,
        IF RatingsInput(u.ratings) # OK
        THEN "Error: rating must be an integer between 1 and 5." ELSE OK,
        IF ~IsNone(u.temp) /\ ~(u.temp[1] \in 0..100)
        THEN "Error: temp must be between 0 and 100" ELSE OK,
        IF ~IsNone(u.duration) /\ u.duration[1] <= 0
        THEN "Error: duration must be greater than 0" ELSE OK,
        IF ~IsNone(u.tds) /\ u.tds[1] <= 0 THEN "Error: tds must be greater than 0" ELSE OK,
        IF ~IsNone(u.ey) /\ u.ey[1] <= 0 THEN "Error: ey must be greater than 0" ELSE OK,
        IF ~IsNone(u.brix) /\ u.brix[1] < 0 THEN "Error: brix must be >= 0" ELSE OK,
        IF ~IsNone(u.roast_date) /\ ~ROAST_DATE_PATTERN_match(Chars(u.roast_date[1]))
        THEN "Error: roast-date must be in YYYY-MM-DD format" ELSE OK,
        IF ~IsNone(u.coffee_type) /\ u.coffee_type[1] \notin COFFEE_TYPE_ENUM
        THEN "Error: coffee-type must be one of" ELSE OK,
        IF ~IsNone(u.water_ppm) /\ u.water_ppm[1] < 0
        THEN "Error: water-ppm must be >= 0" ELSE OK,
        IF BlankFlag(u.method) THEN "Error: method must be 1-100 characters" ELSE OK,
        IF ~IsNone(u.grind) /\ u.grind[1] \notin GRIND_ENUM
        THEN "Error: grind must be one of" ELSE OK,
        IF BlankFlag(u.notes) THEN "Error: notes must be 1-2000 characters" ELSE OK,
        IF BlankFlag(u.tasting_notes)
        THEN "Error: tasting-notes must be 1-2000 characters" ELSE OK,
        IF BlankFlag(u.varietal) THEN "Error: varietal must be 1-100 characters" ELSE OK,
        IF BlankFlag(u.process) THEN "Error: process must be 1-100 characters" ELSE OK,
        IF BlankFlag(u.grinder) THEN "Error: grinder must be 1-100 characters" ELSE OK,
        IF BlankFlag(u.brewer) THEN "Error: brewer must be 1-100 characters" ELSE OK >>)

\* brewlog update [BREW_ID] ...: the checks of the flags, the updates dict,
\* get_connection, get_latest_brew_id when no id is given (latest is what the
\* query gave), update_brew, close.
update(u, d, latest) ==
    LET e == UpdateFlagError(u)
        updates == UpdatesOf(u)
        g == get_connection(d, 0)
        brew_id == IF IsNone(u.brew_id) THEN latest ELSE u.brew_id
        t1 == <<"get_connection">>
                \o (IF IsNone(u.brew_id) THEN <<"get_latest_brew_id">> ELSE <<>>)
        r == update_brew(brew_id[1], updates, g.conn)
        t2 == t1 \o (IF r.sql THEN <<"UPDATE">> ELSE <<>>) \o <<"close">>
    IN IF e # OK THEN Result(d, 1, e, "", 0, <<>>) @@ [id |-> 0]
       ELSE IF DOMAIN updates = {}
       THEN Result(d, 1, "Error: no fields to update", "", 0, <<>>) @@ [id |-> 0]
       ELSE IF g.err # OK
       THEN Result(Close(g.conn), 1, g.err, "", 0, <<"get_connection">>) @@ [id |-> 0]
       ELSE IF IsNone(brew_id)
       THEN Result(Close(g.conn), 1, "Error: no brews logged yet", "", 0,
                   t1 \o <<"close">>) @@ [id |-> 0]
       ELSE IF r.err # OK
       THEN Result(Close(r.conn), 1, r.err, "", 0, t2) @@ [id |-> brew_id[1]]
       ELSE IF ~r.found
       THEN Result(Close(r.conn), 1, "Error: brew not found", "", 0, t2)
            @@ [id |-> brew_id[1]]
       ELSE Result(Close(r.conn), 0, "Brew updated.", "", 1, t2) @@ [id |-> brew_id[1]]

\* update with no argument and no flag.
U_NONE ==
    [ brew_id |-> Null, rating_retired |-> Null, method |-> Null, grind |-> Null,
      temp |-> Null, duration |-> Null, notes |-> Null, tds |-> Null, ey |-> Null,
      brix |-> Null, tasting_notes |-> Null, ratings |-> NO_RATINGS,
      roast_date |-> Null, coffee_type |-> Null, origin |-> <<>>, varietal |-> Null,
      process |-> Null, water_ppm |-> Null, grinder |-> Null, brewer |-> Null ]

\* update --rating-overall 3
U_RATING == [U_NONE EXCEPT !.ratings = [NO_RATINGS EXCEPT !.overall = Some(3)]]

\* The command lines of update: no flag, a rating, a note, a rating out of
\* range, a blank note, the retired flag; each with no id and with the ids of
\* the store and one beyond them.
UPDATE_ARGS ==
    { [u EXCEPT !.brew_id = id] :
          u \in { U_NONE, U_RATING,
                  [U_NONE EXCEPT !.notes = Some("test")],
                  [U_NONE EXCEPT !.ratings = [NO_RATINGS EXCEPT !.overall = Some(6)]],
                  [U_NONE EXCEPT !.notes = Some("   ")],
                  [U_RATING EXCEPT !.rating_retired = Some(3)] },
          id \in {Null} \cup { Some(i) : i \in 1..MaxRows + 1 } }

\* brewlog update ...
Update ==
    /\ Idle
    /\ \E u \in UPDATE_ARGS :
        \E latest \in get_latest_brew_id(get_connection(disk, 0).conn) :
            LET r == update(u, disk, latest)
            IN /\ disk' = r.disk
               /\ pre' = disk
               /\ outcome' = Outcome("update", r)
               /\ trace' = r.trace
               /\ opens' = IF Opened(r.trace) THEN Bump(opens) ELSE opens
               /\ input' = [NoInput EXCEPT !.brew_id = IF IsNone(u.brew_id) THEN 0
                                                       ELSE u.brew_id[1],
                                           !.updates = UpdatesOf(u),
                                           !.columns = DOMAIN UpdatesOf(u)]
               /\ assigned' = assigned \cup DOMAIN disk'.rows
               /\ UNCHANGED <<outfile, out>>

NextUpdate == InsertBrew \/ Update \/ Exit

SpecUpdate == InitList /\ [][NextUpdate]_vars

\* ------------------------------------------------------------------ C23

\* The four required columns of a row hold what the record model requires.
RequiredFieldsValid(row) ==
    /\ \A c \in NOT_NULL_COLUMNS : c \in DOMAIN row /\ ~IsNone(row[c])
    /\ row["type"][1] \in BREW_TYPE_ENUM
    /\ row["dose_g"][1] > 0
    /\ row["water_weight_g"][1] > 0

\* The text is of one of the two shapes: ten characters YYYY-MM-DD, or twenty
\* characters YYYY-MM-DDTHH:MM:SSZ.
AcceptedShape(cs) ==
    \/ Len(cs) = 10 /\ DateHead(cs)
    \/ Len(cs) = 20 /\ DateHead(cs) /\ TimeTail(cs)

\* C23 as stated: after any sequence of add, import, update and delete on a
\* store that was empty, every stored row has a non-null date, type, dose_g and
\* water_weight_g, a type of the four-value enumeration, a dose and a water
\* weight above zero, and a date of one of the two accepted textual shapes.
C23_StoredRowsValid ==
    \A id \in DOMAIN disk.rows :
        /\ RequiredFieldsValid(disk.rows[id])
        /\ AcceptedShape(Chars(disk.rows[id]["date"][1]))

\* ------------------------------------------------------------------ C24

\* The bare shape YYYY-MM-DD, and nothing else in the text.
BareDateShape(cs) == Len(cs) = 10 /\ DateHead(cs)

\* The full UTC shape YYYY-MM-DDTHH:MM:SSZ, and nothing else in the text.
DateTimeShape(cs) == Len(cs) = 20 /\ DateHead(cs) /\ TimeTail(cs)

\* The text of the full shape names a moment of the calendar and the clock.
RealDateTime(cs) ==
    LET y == Number(cs, 1, 4)    mo == Number(cs, 6, 7)    d == Number(cs, 9, 10)
        h == Number(cs, 12, 13)  mi == Number(cs, 15, 16)  s == Number(cs, 18, 19)
    IN y >= 1 /\ mo \in 1..12 /\ d \in 1..DaysIn(y, mo) /\ h <= 23 /\ mi <= 59 /\ s <= 59

DateValidated == out # Null /\ "error" \in DOMAIN out[1]

\* C24 as stated: the record model takes a timestamp only if it has the full
\* UTC date-time shape ending in "Z" or the bare YYYY-MM-DD shape; a text of the
\* date-time shape that is no real calendar date-time is refused; a text of the
\* bare shape is taken whatever its month and day (month 13 too).
C24_TimestampShapes ==
    DateValidated =>
        LET cs == out[1].date
            taken == out[1].error = OK
        IN /\ taken => (DateTimeShape(cs) \/ BareDateShape(cs))
           /\ (DateTimeShape(cs) /\ ~RealDateTime(cs)) => ~taken
           /\ BareDateShape(cs) => taken

\* ------------------------------------------------------------------ C25

\* Every row of the store is a row insert_brew writes for a record model object.
CreatedByInsertBrew(d) ==
    /\ d.exists /\ DOMAIN d.rows # {}
    /\ \A id \in DOMAIN d.rows :
           \E b \in BREW_INPUTS :
               \A c \in DOMAIN d.rows[id] \ {"id"} :
                   d.rows[id][c] = Get(InsertParams(b), c)

\* The file an export left, given to import on a store that does not exist yet.
ImportOfExport ==
    import_cmd(File(<<"data", "brews">>, "." \o outfile[1].fmt, TRUE, 1024,
                    Mapping(outfile[1].document)),
               NoTable, 0)

\* C25 as stated: the export of a store whose rows were all created through the
\* record model succeeds, and the import of the exported YAML or JSON file into
\* an empty store succeeds and yields as many rows, each equal to its source row
\* in every column but id.
C25_ExportImportRoundTrip ==
    ( /\ outcome.cmd = "export" /\ input.fmt \in {"yaml", "json"}
      /\ input.path_ok /\ input.permitted
      /\ CreatedByInsertBrew(pre) ) =>
        /\ outcome.exit = 0
        /\ ~IsNone(outfile) /\ "document" \in DOMAIN outfile[1]
        /\ ImportOfExport.exit = 0
        /\ Cardinality(DOMAIN ImportOfExport.disk.rows) = Cardinality(DOMAIN pre.rows)
        /\ \A id \in DOMAIN pre.rows :
               \E new \in DOMAIN ImportOfExport.disk.rows :
                   SameBrew(ImportOfExport.disk.rows[new], pre.rows[id])

\* ------------------------------------------------------------------ C26

\* The command closed the connection after it had opened it.
ClosedAfterOpen(tr) ==
    \E i \in DOMAIN tr, j \in DOMAIN tr :
        i < j /\ tr[i] = "get_connection" /\ tr[j] = "close"

\* C26 as stated: a command opens at most one storage connection, and closes
\* the connection it opened on every path by which it ends: success, row not
\* found, failure of the schema initialisation or of the migration, failure of
\* an insert with rollback, exit with an error.
C26_OneConnectionAlwaysClosed ==
    ~Idle =>
        /\ Count(trace, "get_connection") <= 1
        /\ Opened(trace) => ClosedAfterOpen(trace)

\* ------------------------------------------------------------------ C27

\* C27 as stated: add fails, writes no row and opens no storage connection
\* whenever a free-text value it is given (method, notes, grinder, brewer,
\* varietal, process, tasting notes, an origin) is empty or white space only.
C27_BlankFreeTextRejected ==
    (outcome.cmd = "add" /\ input.blank) =>
        /\ outcome.exit = 1
        /\ disk = pre
        /\ ~Opened(trace)

\* ------------------------------------------------------------------ C28

\* An update that was given no id and came to open the store.
UpdateWithoutId == outcome.cmd = "update" /\ input.brew_id = 0 /\ Opened(trace)

\* The row is as it was before the command (a column the migration added is null).
RowUntouched(id) ==
    \A c \in DOMAIN disk.rows[id] : disk.rows[id][c] = Get(pre.rows[id], c)

\* C28: an update without an id aims at a row of the greatest stored date (as
\* the store compares its date texts), not at the row of the highest id: when
\* it succeeds that row holds the given values in the named columns, and no
\* other row is changed, added or removed; on a store without rows it fails and
\* the store still has no rows.
C28_UpdateDefaultsToLatestDated ==
    UpdateWithoutId =>
        IF DOMAIN pre.rows = {}
        THEN outcome.exit = 1 /\ DOMAIN disk.rows = {}
        ELSE /\ outcome.id \in LatestDated(pre.rows)
             /\ DOMAIN disk.rows = DOMAIN pre.rows
             /\ \A id \in DOMAIN disk.rows \ {outcome.id} : RowUntouched(id)
             /\ outcome.exit = 0 =>
                    \A c \in DOMAIN disk.rows[outcome.id] :
                        disk.rows[outcome.id][c] =
                            IF c \in DOMAIN input.updates THEN input.updates[c]
                            ELSE Get(pre.rows[outcome.id], c)

\* An update without an id changed the rating of the latest-dated row, which is
\* not the row of the highest id.
C28_Witness ==
    /\ UpdateWithoutId /\ outcome.exit = 0
    /\ \E id \in DOMAIN pre.rows : id > outcome.id
    /\ disk.rows[outcome.id]["result_rating_overall"] = Some(3)
    /\ pre.rows[outcome.id]["result_rating_overall"] # Some(3)
    /\ \A id \in DOMAIN disk.rows \ {outcome.id} : RowUntouched(id)

\* ------------------------------------------------------------------ commands/list_.py: the rating shown

\* json.loads(row["result_ratings"]).get("overall"), for the blobs of the model.
BlobOverall(text) ==
    IF text = "{overall: 4}" THEN Some(4)
    ELSE IF text = "{overall: 1}" THEN Some(1)
    ELSE Null

\* _get_overall_rating: result_rating_overall when it is not null, else the
\* blob's overall value, else None.
get_overall_rating(row) ==
    IF ~IsNone(Get(row, "result_rating_overall")) THEN row["result_rating_overall"]
    ELSE IF ~IsNone(Get(row, "result_ratings")) THEN BlobOverall(row["result_ratings"][1])
    ELSE Null

\* ------------------------------------------------------------------ C29

\* A query came back that had a rating bound, no other filter and no cap.
RatingQuery ==
    /\ outcome.cmd = "list_brews_filtered"
    /\ input.query.all_rows
    /\ IsNone(input.query.brew_type) /\ IsNone(input.query.since) /\ IsNone(input.query.until)
    /\ ~IsNone(input.query.rating_min) \/ ~IsNone(input.query.rating_max)

\* The rating list shows for the row is within the query's bounds.
ShownRatingWithin(row, q) ==
    LET shown == get_overall_rating(row)
    IN /\ ~IsNone(shown)
       /\ IsNone(q.rating_min) \/ shown[1] >= q.rating_min[1]
       /\ IsNone(q.rating_max) \/ shown[1] <= q.rating_max[1]

\* C29 as stated: the rating filters agree with the overall rating list shows:
\* a row, a legacy row with its rating in the blob only among them, is returned
\* under the bounds exactly when the rating shown for it (the column if it is
\* not null, else the blob's overall) is within them.
C29_RatingFilterAgreesWithShown ==
    RatingQuery =>
        \A id \in DOMAIN disk.rows :
            id \in ReturnedIds <=> ShownRatingWithin(disk.rows[id], input.query)

\* ------------------------------------------------------------------ the two insert paths

\* The brews that are valid records: those of RT_BREWS whose grind the record
\* model takes (validate_grind); their other fields are valid for it.  The
\* record and the nested brew object with the same field values are the same
\* value here: the dict of the fields that are not None.
RECORDS == { b \in RT_BREWS : IsNone(Get(b, "grind")) \/ Get(b, "grind")[1] \in GRIND_ENUM }

InitPaths ==
    /\ disk \in {NoTable, LEGACY_V2}
    /\ input \in RECORDS
    /\ out = Null
    /\ outfile = Null
    /\ pre = disk
    /\ outcome = NoOutcome
    /\ trace = <<>>
    /\ opens = 0
    /\ assigned = DOMAIN disk.rows

\* get_connection; insert_brew(b); close.
InsertRecord ==
    LET g == get_connection(disk, 0)
        r == insert_brew(input, g.conn)
    IN /\ IsNone(out)
       /\ g.err = OK /\ r.err = OK
       /\ disk' = Close(r.conn)
       /\ out' = Some([by_record |-> r.lastrowid])
       /\ opens' = Bump(opens)
       /\ assigned' = assigned \cup DOMAIN disk'.rows
       /\ UNCHANGED <<outfile, pre, outcome, trace, input>>

\* get_connection; insert_brew_dict(d); commit; close.
InsertDict ==
    LET g == get_connection(disk, 0)
        r == insert_brew_dict(input, g.conn)
    IN /\ ~IsNone(out) /\ "by_dict" \notin DOMAIN out[1]
       /\ g.err = OK /\ r.err = OK
       /\ disk' = Close(Commit(r.conn))
       /\ out' = Some([by_record |-> out[1].by_record, by_dict |-> r.lastrowid])
       /\ opens' = Bump(opens)
       /\ assigned' = assigned \cup DOMAIN disk'.rows
       /\ UNCHANGED <<outfile, pre, outcome, trace, input>>

NextPaths == InsertRecord \/ InsertDict

SpecPaths == InitPaths /\ [][NextPaths]_vars

\* ------------------------------------------------------------------ C30

\* Both inserts are done.
BothStored == ~IsNone(out) /\ "by_dict" \in DOMAIN out[1]

\* C30: insert_brew of a valid record and insert_brew_dict, followed by commit,
\* of the nested brew object with the same field values store rows that are
\* equal in every column but id: coffee_origin is null in both when there are
\* no origins, and the same JSON text of the list, in its order, when there are.
C30_TwoInsertPathsAgree ==
    BothStored =>
        /\ out[1].by_record # out[1].by_dict
        /\ SameBrew(disk.rows[out[1].by_record], disk.rows[out[1].by_dict])

\* Both paths stored a brew of two origins and with a coffee object: the
\* column holds the list's JSON text in both rows.
C30_Witness ==
    /\ BothStored
    /\ ~IsNone(Get(input, "coffee"))
    /\ disk.rows[out[1].by_record]["coffee_origin"]
           = Some(json_dumps(<<"Ethiopia", "Colombia">>))
    /\ disk.rows[out[1].by_dict]["coffee_origin"]
           = Some(json_dumps(<<"Ethiopia", "Colombia">>))
    /\ disk.rows[out[1].by_dict]["result_rating_overall"] = Some(4)

====
